---- MODULE Spec2Model ----
(***************************************************************************)
(* Model of the tariff fallback cascade of backend/tariff/api.py           *)
(* (request_tariff_from_wits).  One run of the coroutine is one behaviour: *)
(* every HTTP request the code issues is one action, whose response is     *)
(* chosen nondeterministically from the shapes the code distinguishes, and *)
(* which carries the run up to the next request or to the return.          *)
(*                                                                         *)
(* Floats are modelled by integers (0 stands for 0.0); HS codes are        *)
(* sequences of digits so that hs_code[:4] and hs_code[:2] are SubSeq;     *)
(* the reason string is modelled as the sequence of its sentences.         *)
(***************************************************************************)
EXTENDS Integers, Sequences, FiniteSets, TLC

\* ------------------------------------------------------------------ bounds
\* Number of entries (<wits:reporter> elements) of an availability document.
MaxEntries == 2
\* Number of calendar years the availability document may mention.
NumYears == 3
\* Number of indicators in the secondary source's catalog.
MaxIndicators == 2

\* ------------------------------------------------------------ input domains
Years == 2020 .. (2019 + NumYears)
TargetYears == {2021}
World == "000"
Partners == {World, "156"}
Reporters == {"076"}
HsCodes == {<<8, 5, 1, 8, 3, 0>>, <<8, 5, 1, 8>>, <<8, 5>>}
ApiKeys == {"", "key"}

\* Optional float: Python's None or a float.
None == [some |-> FALSE, v |-> 0]
Some(x) == [some |-> TRUE, v |-> x]

NoHs == <<>>

\* ------------------------------------------------------------------- state
VARIABLES
    hs_code, partner, reporter, target_year, wto_api_key,   \* arguments
    pc,                      \* position of the coroutine
    available,               \* year -> set of partners; read for the last time at
                             \* api.py:132 and forgotten once the scan starts
    used_partner, used_year, used_hs,
    reason_parts,            \* list of relaxation / zero-rate notes
    rate,                    \* primary (WITS) rate
    last_query_url,
    attempted_bilateral,
    pi, hi,                  \* positions of the two Step-5 loops
    reason,                  \* the reason string, sentence by sentence
    wto_rate,
    tariff_indicator,        \* the selected catalog entry: its code and name
    catalog,                 \* indicators_data; read for the last time at
                             \* api.py:230 and forgotten once the data query is sent
    result,                  \* the returned (rate, reason) tuple
    requests                 \* log of the HTTP requests issued, in order

\* The reference-table repository (BaseVectorRepo), its two stores and its callers.
VARIABLES
    system_store,            \* repo.system_store: "None", "created" (no pool yet), "connected"
    metadata_columns,        \* repo.metadata_columns
    vector_store,            \* repo.vector_store
    table,                   \* the vector table in Postgres
    system_items,            \* the system store's row at metadata_key
    other_items,             \* the system store's row at the other repository's key
    task,                    \* the coroutines calling the repository
    calls,                   \* number of calls made so far
    last_done                \* the call that returned last

\* The /tariff endpoint (get_tariff) around the cascade.
VARIABLES
    gt_pc,                   \* position of get_tariff: the await it is at
    gt_hs_code,              \* get_tariff's hs_code
    reporter_code,
    partner_code,
    resolutions,             \* log of the resolver calls made, in order
    response                 \* the TariffResponse returned

\* One function wrapped by singleton_cache and the threads calling the wrapper.
VARIABLES
    cache,                   \* _cache: the entry under cache_key, if any
    thread,                  \* the callers of the wrapper
    invocations,             \* number of times the wrapped function has run
    instances,               \* the non-None values the wrapped function returned
    wcalls                   \* log of the calls of the wrapper that returned

\* SystemStore (system_store/system_store.py) called directly, one call at a time
VARIABLES
    pool,                    \* self.pool: "None" or "open"
    store_table,             \* the rows (key, value) of the store's table, in insertion order
    written,                 \* per key, the document last written by a call that succeeded
    store_call,              \* the last call: its arguments, outcome and the table before it
    store_calls              \* number of calls made

cascade_vars == <<hs_code, partner, reporter, target_year, wto_api_key, pc, available,
                  used_partner, used_year, used_hs, reason_parts, rate, last_query_url,
                  attempted_bilateral, pi, hi, reason, wto_rate, tariff_indicator,
                  catalog, result, requests>>

repo_vars == <<system_store, metadata_columns, vector_store, table, system_items,
               other_items, task, calls, last_done>>

api_vars == <<gt_pc, gt_hs_code, reporter_code, partner_code, resolutions, response>>

cache_vars == <<cache, thread, invocations, instances, wcalls>>

store_vars == <<pool, store_table, written, store_call, store_calls>>

vars == <<cascade_vars, repo_vars, api_vars, cache_vars, store_vars>>

args == <<hs_code, partner, reporter, target_year, wto_api_key>>

\* ------------------------------------------------------- URLs and sentences
\* A request URL: the parts of it that vary.
Url(src, p, hs, yr, ind) == [src |-> src, p |-> p, hs |-> hs, yr |-> yr, ind |-> ind]
NoUrl == Url("none", "-", NoHs, 0, 0)
\* api.py:162
QueryUrl(p, hs, yr) == Url("wits", p, hs, yr, 0)

\* One element of reason_parts.
Part(kind, hs, p, yr) == [kind |-> kind, hs |-> hs, p |-> p, yr |-> yr]
PartnerPart(p) == Part("partner", NoHs, p, 0)
YearPart(yr) == Part("year", NoHs, "-", yr)
HsPart(hs) == Part("hs", hs, "-", 0)
ZeroPart(hs, p) == Part("zero", hs, p, 0)

\* Note without the URL (a sentence that does not say where it was observed).
Note_WithoutUrl(kind, parts, url, r) ==
    [kind |-> kind, parts |-> parts, url |-> [src |-> "none", p |-> "-", hs |-> <<>>,
                                             yr |-> 0, ind |-> 0], r |-> r]

\* One sentence of the reason string.
Note(kind, parts, url, r) == [kind |-> kind, parts |-> parts, url |-> url, r |-> r]

\* api.py:183: the sentence returned for an observation that float() rejects; it
\* names the level, the partner, the value as received and the query URL.
ValuePart(raw) == Part("value", NoHs, raw, 0)
InvalidRate(hs, p, raw, url) ==
    Note("invalid_rate", <<Part("obs", hs, p, 0), ValuePart(raw)>>, url, None)
Plain(kind) == Note(kind, <<>>, NoUrl, None)

\* One entry of the request log.
Req(src, url, got) == [src |-> src, url |-> url, got |-> got]

\* The returned tuple.
Ret(r, why) == [rate |-> r, reason |-> why]
NoResult == Ret(None, <<>>)
NoIndicator == [code |-> 0, name |-> ""]

\* ------------------------------------------- Steps 1-3: availability (api.py:84-121)
\* A <wits:reporter> element: its <wits:year> text (a number, missing/empty, or
\* text int() rejects) and the set of codes of its <wits:partnerlist>.
Entries == [yk : {"num"}, y : Years, partners : SUBSET Partners]
             \cup [yk : {"missing", "bad"}, y : {0}, partners : {{}}]

RECURSIVE SeqsUpTo(_, _)
SeqsUpTo(S, n) == IF n = 0 THEN {<<>>}
                  ELSE LET shorter == SeqsUpTo(S, n - 1)
                       IN shorter \cup {Append(q, e) : q \in {t \in shorter : Len(t) = n - 1}, e \in S}

Docs == SeqsUpTo(Entries, MaxEntries)

\* api.py:106-118: the loop that fills `available`; an entry without a year is
\* skipped, '000' is added to every partner list, a later entry of the same year
\* replaces the earlier one.
RECURSIVE BuildAvailable(_, _)
BuildAvailable(doc, n) ==
    IF n = 0 THEN <<>>
    ELSE LET prev == BuildAvailable(doc, n - 1)
             e == doc[n]
         IN IF e.yk # "num" THEN prev
            ELSE [y \in (DOMAIN prev) \cup {e.y} |->
                     IF y = e.y THEN e.partners \cup {World} ELSE prev[y]]

\* api.py:110: int(year_elem.text) raises ValueError on text that is no number.
YearTextRaises(doc) == \E i \in 1 .. Len(doc) : doc[i].yk = "bad"

\* ------------------------------------------- Step 4: year selection (api.py:123-149)
\* api.py:128: sorted(available.keys(), reverse=True)
RECURSIVE SortDesc(_)
SortDesc(S) == IF S = {} THEN <<>>
               ELSE LET m == CHOOSE x \in S : \A y \in S : y <= x
                    IN <<m>> \o SortDesc(S \ {m})

\* api.py:129-134 (exact = TRUE) and api.py:139-143 (exact = FALSE): the first
\* year of sorted_years, from position i on, that is not after target and, in
\* the exact scan, lists partner p (or p is '000').
\* ScanYears without the test of api.py:130 (a scan that may look forward in time).
RECURSIVE ScanYears_NoTargetCheck(_, _, _, _, _, _)
ScanYears_NoTargetCheck(sorted, i, target, av, p, exact) ==
    IF i > Len(sorted) THEN None
    ELSE IF (~exact) \/ p \in av[sorted[i]] \/ p = World THEN Some(sorted[i])
    ELSE ScanYears_NoTargetCheck(sorted, i + 1, target, av, p, exact)

\* ScanYears without the partner test of api.py:132 (any year up to the target wins).
RECURSIVE ScanYears_IgnorePartner(_, _, _, _, _, _)
ScanYears_IgnorePartner(sorted, i, target, av, p, exact) ==
    IF i > Len(sorted) THEN None
    ELSE IF sorted[i] > target
         THEN ScanYears_IgnorePartner(sorted, i + 1, target, av, p, exact)
         ELSE Some(sorted[i])

RECURSIVE ScanYears(_, _, _, _, _, _)
ScanYears(sorted, i, target, av, p, exact) ==
    IF i > Len(sorted) THEN None
    ELSE IF sorted[i] > target THEN ScanYears(sorted, i + 1, target, av, p, exact)
    ELSE IF (~exact) \/ p \in av[sorted[i]] \/ p = World THEN Some(sorted[i])
    ELSE ScanYears(sorted, i + 1, target, av, p, exact)

\* SelectYear without the second scan of api.py:136-143 (no world-aggregate retry).
SelectYear_NoWorldRetry(av, p, target) ==
    LET sorted == SortDesc(DOMAIN av)
        first == ScanYears(sorted, 1, target, av, p, TRUE)
        parts2 == IF first.some /\ first.v # target THEN <<YearPart(first.v)>> ELSE <<>>
    IN [used_partner |-> p,
        used_year |-> first,
        parts |-> parts2]

\* api.py:124-149: used_partner, used_year and reason_parts after Step 4.
SelectYear(av, p, target) ==
    LET sorted == SortDesc(DOMAIN av)
        first == ScanYears(sorted, 1, target, av, p, TRUE)
        second == ScanYears(sorted, 1, target, av, p, FALSE)
        relaxed == ~first.some
        yr == IF relaxed THEN second ELSE first
        parts1 == IF relaxed THEN <<PartnerPart(World)>> ELSE <<>>
        parts2 == IF yr.some /\ yr.v # target THEN Append(parts1, YearPart(yr.v)) ELSE parts1
    IN [used_partner |-> IF relaxed THEN World ELSE p,
        used_year |-> yr,
        parts |-> parts2]

\* ------------------------------------------- Step 5: the scan (api.py:151-201)
\* api.py:152
HsLevels(hs) == << hs,
                   IF Len(hs) >= 4 THEN SubSeq(hs, 1, 4) ELSE hs,
                   IF Len(hs) >= 2 THEN SubSeq(hs, 1, 2) ELSE hs >>

\* The partner order with the world aggregate scanned twice.
PartnersToTry_WorldTwice(p, attempted) ==
    IF p # World /\ ~attempted THEN <<p, World, World>> ELSE <<World, World>>
\* The partner order with the world aggregate first.
PartnersToTry_WorldFirst(p, attempted) ==
    IF p # World /\ ~attempted THEN <<World, p>> ELSE <<World>>
\* api.py:158 (attempted_bilateral is False there)
PartnersToTry(p, attempted) == IF p # World /\ ~attempted THEN <<p, World>> ELSE <<World>>

hs_levels == HsLevels(hs_code)
partners_to_try == PartnersToTry(partner, FALSE)

\* api.py:201
WitsReason(parts, url) == IF parts = <<>> THEN <<Plain("no_fallback")>>
                          ELSE <<Note("fallback", parts, url, None)>>

\* WtoTriggered without the test of the key.
WtoTriggered_IgnoreKey(r, p, key) == r.v = 0 \/ p # World

\* api.py:206
WtoTriggered(r, p, key) == (r.v = 0 \/ p # World) /\ key # ""

\* FinalRate without the test that the secondary rate is not zero.
FinalRate_AnyDifferent(r, w) == IF w.some /\ w.v # r.v THEN w ELSE r

\* FinalRate taking the secondary rate whenever there is one.
FinalRate_SecondaryFirst(r, w) == IF w.some THEN w ELSE r

\* api.py:404
FinalRate(r, w) == IF w.some /\ w.v # 0 /\ w.v # r.v THEN w ELSE r

\* api.py:399-408: the zero-rate warning and the final selection.
Finish(r, w, why) ==
    LET why1 == IF r.v = 0 THEN Append(why, Plain("zero_warning")) ELSE why
        final == FinalRate(r, w)
        why2 == IF final # r THEN Append(why1, Note("using_wto", <<>>, NoUrl, final)) ELSE why1
    IN Ret(final, why2)

\* Raw values a response may carry where a rate is expected (JSON numbers and
\* strings), and float() on them: api.py:178, api.py:336, api.py:383.
RawValues == {"0", "0.0", "5.0", "7", "n/a"}
ParseFloat(raw) == CASE raw \in {"0", "0.0"} -> Some(0)
                     [] raw = "5.0" -> Some(5)
                     [] raw = "7" -> Some(7)
                     [] OTHER -> None

\* The shapes of a WITS data response the code tells apart (api.py:164-189):
\*   exception  requests.get or resp.json() raises RequestException / ValueError
\*   non200     a status code other than 200
\*   nodata     200, but no dataSets / series / observations['0'], or a null value
\*   obs        200 with observations['0'][0] = raw
\*   malformed  200 with JSON of another shape (dataSets[0] is no object):
\*              AttributeError / TypeError, which the except clause does not list
WitsResponses == [kind : {"exception", "non200", "nodata", "malformed"}, raw : {"-"}]
                   \cup [kind : {"obs"}, raw : RawValues \ {"7"}]

\* The inner loop body going on to the next pair after a value float() rejects.
ScanBody_InvalidSkipped(resp, p, hs, r, uhs, up, parts, attempted) ==
    LET same == [rate |-> r, used_hs |-> uhs, used_partner |-> up, parts |-> parts,
                 attempted |-> attempted, ctl |-> "next"]
        parsed == ParseFloat(resp.raw)
    IN CASE resp.kind = "exception" -> same
         [] resp.kind = "malformed" -> [same EXCEPT !.ctl = "raise"]
         [] resp.kind = "non200" -> [same EXCEPT !.attempted = attempted \/ (p = partner)]
         [] resp.kind = "nodata" ->
                [same EXCEPT !.parts = IF r = Some(0) THEN Append(parts, ZeroPart(hs, p)) ELSE parts,
                             !.attempted = attempted \/ (p = partner)]
         [] resp.kind = "obs" ->
                IF parsed.some
                THEN [same EXCEPT !.rate = parsed, !.used_hs = hs, !.used_partner = p,
                                  !.ctl = "break"]
                ELSE same

\* The inner loop body keeping a rate observed earlier over a later one.
ScanBody_KeepsFirstRate(resp, p, hs, r, uhs, up, parts, attempted) ==
    LET same == [rate |-> r, used_hs |-> uhs, used_partner |-> up, parts |-> parts,
                 attempted |-> attempted, ctl |-> "next"]
        parsed == ParseFloat(resp.raw)
    IN CASE resp.kind = "exception" -> same
         [] resp.kind = "malformed" -> [same EXCEPT !.ctl = "raise"]
         [] resp.kind = "non200" -> [same EXCEPT !.attempted = attempted \/ (p = partner)]
         [] resp.kind = "nodata" ->
                [same EXCEPT !.parts = IF r = Some(0) THEN Append(parts, ZeroPart(hs, p)) ELSE parts,
                             !.attempted = attempted \/ (p = partner)]
         [] resp.kind = "obs" ->
                IF parsed.some
                THEN IF r.some THEN [same EXCEPT !.ctl = "break"]
                     ELSE [same EXCEPT !.rate = parsed, !.used_hs = hs, !.used_partner = p,
                                       !.ctl = "break"]
                ELSE [same EXCEPT !.ctl = "invalid"]

\* api.py:164-189: the body of the inner loop for partner p, level hs, given the
\* response.  ctl says how the iteration ends: "break" (181), "next" (fall
\* through or continue), "invalid" (return at 183), "raise".
ScanBody(resp, p, hs, r, uhs, up, parts, attempted) ==
    LET same == [rate |-> r, used_hs |-> uhs, used_partner |-> up, parts |-> parts,
                 attempted |-> attempted, ctl |-> "next"]
        parsed == ParseFloat(resp.raw)
    IN CASE resp.kind = "exception" -> same
         [] resp.kind = "malformed" -> [same EXCEPT !.ctl = "raise"]
         [] resp.kind = "non200" -> [same EXCEPT !.attempted = attempted \/ (p = partner)]
         [] resp.kind = "nodata" ->
                [same EXCEPT !.parts = IF r = Some(0) THEN Append(parts, ZeroPart(hs, p)) ELSE parts,
                             !.attempted = attempted \/ (p = partner)]
         [] resp.kind = "obs" ->
                IF parsed.some
                THEN [same EXCEPT !.rate = parsed, !.used_hs = hs, !.used_partner = p,
                                  !.ctl = "break"]
                ELSE [same EXCEPT !.ctl = "invalid"]

\* api.py:160-161, 190-191: whether the loops are over after an iteration that
\* ended with ctl, the primary rate now being r.
InnerDone(ctl, h) == ctl = "break" \/ h = Len(hs_levels)
\* OuterDone without the break of api.py:190-191.
OuterDone_IgnoreNonZero(ctl, h, q, r) == InnerDone(ctl, h) /\ q = Len(partners_to_try)
OuterDone(ctl, h, q, r) == InnerDone(ctl, h) /\ ((r.some /\ r.v # 0) \/ q = Len(partners_to_try))

\* FinalParts without the test of api.py:196 (a relaxed code level is not noted).
FinalParts_NoHsPart(parts, uhs, up) ==
    IF up # partner THEN Append(parts, PartnerPart(up)) ELSE parts

\* api.py:196-199
FinalParts(parts, uhs, up) ==
    LET parts1 == IF uhs # hs_code THEN Append(parts, HsPart(uhs)) ELSE parts
    IN IF up # partner THEN Append(parts1, PartnerPart(up)) ELSE parts1

\* ------------------------------------------------ the repository's values
\* Coroutines that call the repository concurrently.
NumTasks == 2
\* Calls made on the repository in one run.
MaxCalls == 3
\* Rows of the data frame that fetch_data loads.
NumRows == 2

Tasks == 1 .. NumTasks
Ops == {"fetch_data", "find_items", "drop"}

\* df.columns of the reference table and _get_content_column() (hs_code_repo.py:24-36)
FrameColumns == {"productcode", "productdescription"}
ContentColumn == "productdescription"

\* metadata_columns: Python None, or a list of columns (their names)
Unset == [some |-> FALSE, cols |-> {}]
Cols(S) == [some |-> TRUE, cols |-> S]

\* fetch_data's list comprehension over df.columns (base_repo.py:145)
FrameMetadata == Cols(FrameColumns)

\* A VectorStore object (vector_store.py:10-24): the content column is removed from
\* its metadata columns; `store` is only set by connect() or truncate_store().
\* `id` is the number of the call that constructed it.
NoVectorStore == [some |-> FALSE, id |-> 0, cols |-> {}, store |-> FALSE]
NewVectorStore(id, mc) == [some |-> TRUE, id |-> id, cols |-> mc.cols \ {ContentColumn},
                           store |-> FALSE]

\* The vector table: absent, or its metadata columns and its rows. A row is the
\* pair of the task that inserted it and its position in the data frame.
NoTable == [exists |-> FALSE, cols |-> {}, rows |-> {}]
CreateTable(cols) == [exists |-> TRUE, cols |-> cols, rows |-> {}]
Row(t, i) == <<t, i>>

\* What a call returned: nothing yet, a value, or an exception.
NoOutcome == [status |-> "none", kind |-> "", rows |-> {}]
NoCall == [op |-> "none", status |-> "none"]

\* A coroutine: the call it runs, the await it is suspended at, the call's number,
\* the VectorStore object it works on, add_dataframe's row, the argument of
\* _save_metadata_columns, its outcome, and what held when the call was made.
IdleTask == [op |-> "none", pc |-> "idle", n |-> 0, vs |-> NoVectorStore, i |-> 0,
             arg |-> Unset, outcome |-> NoOutcome,
             at_call |-> [last |-> NoCall, exists |-> FALSE, complete |-> FALSE,
                          company |-> {}, other |-> Unset,
                          table |-> NoTable, items |-> Unset, schema |-> Unset]]

\* BaseVectorRepo.__init__ (base_repo.py:17-25) on an empty database
RepoStart ==
    /\ system_store = "None"
    /\ metadata_columns = Unset
    /\ vector_store = NoVectorStore
    /\ table = NoTable
    /\ system_items = Unset
    /\ other_items = Unset
    /\ task = [t \in Tasks |-> IdleTask]
    /\ calls = 0
    /\ last_done = NoCall

\* ------------------------------------------- The endpoint and the singleton cache
\* No TariffResponse yet.
NoResponse == [sent |-> FALSE, hs_code |-> NoHs, tariff |-> None, tariff_fallback |-> <<>>]

\* No request is being served: the cascade is called directly.
NoEndpoint ==
    /\ gt_pc = "none"
    /\ gt_hs_code = NoHs
    /\ reporter_code = "-"
    /\ partner_code = "-"
    /\ resolutions = <<>>
    /\ response = NoResponse

\* Number of threads calling the wrapper, and of calls they make in all.
NumThreads == 2
MaxWrapperCalls == 3

Threads == 1 .. NumThreads
\* Arguments the wrapper is called with.
WrapperArgs == {"a", "b"}

NoValue == [some |-> FALSE, arg |-> "-", n |-> 0]
\* The object the wrapped function returns at its n-th run, called with arg.
Value(arg, n) == [some |-> TRUE, arg |-> arg, n |-> n]

IdleThread == [pc |-> "idle", arg |-> "-", result |-> NoValue, invoked |-> FALSE,
               alone |-> TRUE]

\* _cache without and with an entry under cache_key.
NoEntry == [present |-> FALSE, v |-> NoValue]
Entry(v) == [present |-> TRUE, v |-> v]

\* singleton.py:18: _cache = {} when the decorator is applied
CacheStart ==
    /\ cache = NoEntry
    /\ thread = [th \in Threads |-> IdleThread]
    /\ invocations = 0
    /\ instances = {}
    /\ wcalls = <<>>

\* ------------------------------------------------------------- The system store
MaxStoreCalls == 4
StoreKeys == {"hs_code_metadata_columns", "country_code_metadata_columns"}
Fields == {"name", "data_type"}

\* The dicts passed as `value`: the fields they hold, each with a value.
Documents == UNION {[S -> {"text"}] : S \in SUBSET Fields}

NoDocument == [some |-> FALSE, doc |-> <<>>]
Document(d) == [some |-> TRUE, doc |-> d]

\* json.dumps(value) (system_store.py:57, 66): the members in the dict's
\* insertion order.
Dumps(d) ==
    LET present == SelectSeq(<<"data_type", "name">>, LAMBDA f : f \in DOMAIN d)
    IN [n \in 1 .. Len(present) |-> <<present[n], d[present[n]]>>]

\* The text as the JSONB column keeps and returns it (system_store.py:32): one
\* member per key, the last one given, shorter keys first.
Jsonb(text) ==
    LET I(f) == {i \in 1 .. Len(text) : text[i][1] = f}
        Last(f) == CHOOSE i \in I(f) : \A j \in I(f) : j <= i
        present == SelectSeq(<<"name", "data_type">>, LAMBDA f : I(f) # {})
    IN [n \in 1 .. Len(present) |-> text[Last(present[n])]]

\* json.loads (system_store.py:73)
Loads(text) ==
    LET I(f) == {i \in 1 .. Len(text) : text[i][1] = f}
        Last(f) == CHOOSE i \in I(f) : \A j \in I(f) : j <= i
    IN [f \in {text[i][1] : i \in 1 .. Len(text)} |-> text[Last(f)][2]]

\* SELECT ... WHERE key = $1 (system_store.py:70-71)
Matching(rows, k) == SelectSeq(rows, LAMBDA r : r.key = k)

\* A table without the constraint.
Conflicts_Never(rows, k) == FALSE
\* The constraint `key TEXT UNIQUE` (system_store.py:31) rejects the new row.
Conflicts(rows, k) == Matching(rows, k) # <<>>

\* INSERT ... VALUES ($1, $2) of a row the constraint admits (system_store.py:56)
InsertRow(rows, k, text) == Append(rows, [key |-> k, value |-> Jsonb(text)])

\* The conflicting row left as it is.
UpdateRow_Untouched(rows, k, text) == rows
\* ON CONFLICT (key) DO UPDATE SET value = $2 (system_store.py:64)
UpdateRow(rows, k, text) ==
    [i \in 1 .. Len(rows) |-> IF rows[i].key = k THEN [rows[i] EXCEPT !.value = Jsonb(text)]
                                                 ELSE rows[i]]

\* DELETE without the WHERE clause.
DeleteWhereKey_AnyKey(rows, k) == <<>>
\* DELETE ... WHERE key = $1 (system_store.py:77)
DeleteWhereKey(rows, k) == SelectSeq(rows, LAMBDA r : r.key # k)

\* get_item's return value (system_store.py:72-74)
Fetched(rows, k) ==
    LET found == Matching(rows, k)
    IN IF found # <<>> THEN Document(Loads(found[1].value)) ELSE NoDocument

\* SystemStore.__init__ (system_store.py:8-14) on a database without rows
StoreStart ==
    /\ pool = "None"
    /\ store_table = <<>>
    /\ written = [k \in StoreKeys |-> [last |-> NoDocument, writes |-> 0]]
    /\ store_call = [op |-> "none", key |-> "", arg |-> NoDocument, status |-> "none",
                     result |-> NoDocument, before |-> <<>>]
    /\ store_calls = 0

\* A call returns or raises.
StoreReturn(op, k, arg, status, ret) ==
    /\ store_calls < MaxStoreCalls
    /\ store_calls' = store_calls + 1
    /\ store_call' = [op |-> op, key |-> k, arg |-> arg, status |-> status,
                      result |-> ret, before |-> store_table]
    /\ UNCHANGED <<cascade_vars, repo_vars, api_vars, cache_vars>>

\* _execute and _fetch without a pool (system_store.py:82-83, 94-95)
NoPool(op, k, arg) ==
    /\ pool = "None"
    /\ StoreReturn(op, k, arg, "PoolNotInitialized", NoDocument)
    /\ UNCHANGED <<pool, store_table, written>>

\* SystemStore.connect (system_store.py:17-37)
connect ==
    /\ pool = "None"
    /\ pool' = "open"
    /\ UNCHANGED <<store_table, written, store_call, store_calls>>
    /\ UNCHANGED <<cascade_vars, repo_vars, api_vars, cache_vars>>

\* SystemStore.add_item (system_store.py:54-58)
add_item ==
    \E k \in StoreKeys, d \in Documents :
       \/ NoPool("add_item", k, Document(d))
       \/ /\ pool = "open"
          /\ IF Conflicts(store_table, k)
             THEN /\ StoreReturn("add_item", k, Document(d), "UniqueViolation", NoDocument)
                  /\ UNCHANGED <<store_table, written>>
             ELSE /\ StoreReturn("add_item", k, Document(d), "ok", NoDocument)
                  /\ store_table' = InsertRow(store_table, k, Dumps(d))
                  /\ written' = [written EXCEPT ![k] = [last |-> Document(d),
                                                        writes |-> @.writes + 1]]
          /\ UNCHANGED pool

\* SystemStore.upsert_item (system_store.py:60-67)
upsert_item ==
    \E k \in StoreKeys, d \in Documents :
       \/ NoPool("upsert_item", k, Document(d))
       \/ /\ pool = "open"
          /\ StoreReturn("upsert_item", k, Document(d), "ok", NoDocument)
          /\ store_table' = IF Conflicts(store_table, k)
                            THEN UpdateRow(store_table, k, Dumps(d))
                            ELSE InsertRow(store_table, k, Dumps(d))
          /\ written' = [written EXCEPT ![k] = [last |-> Document(d),
                                                writes |-> @.writes + 1]]
          /\ UNCHANGED pool

\* SystemStore.get_item (system_store.py:69-74)
get_item ==
    \E k \in StoreKeys :
       \/ NoPool("get_item", k, NoDocument)
       \/ /\ pool = "open"
          /\ StoreReturn("get_item", k, NoDocument, "ok", Fetched(store_table, k))
          /\ UNCHANGED <<pool, store_table, written>>

\* SystemStore.delete_item (system_store.py:76-78)
delete_item ==
    \E k \in StoreKeys :
       \/ NoPool("delete_item", k, NoDocument)
       \/ /\ pool = "open"
          /\ StoreReturn("delete_item", k, NoDocument, "ok", NoDocument)
          /\ store_table' = DeleteWhereKey(store_table, k)
          /\ written' = [written EXCEPT ![k].last = NoDocument]
          /\ UNCHANGED pool

Init ==
    /\ hs_code \in HsCodes
    /\ partner \in Partners
    /\ reporter \in Reporters
    /\ target_year \in TargetYears
    /\ wto_api_key \in ApiKeys
    /\ pc = "start"
    /\ available = <<>>
    /\ used_partner = "-"
    /\ used_year = None
    /\ used_hs = NoHs
    /\ reason_parts = <<>>
    /\ rate = None
    /\ last_query_url = NoUrl
    /\ attempted_bilateral = FALSE
    /\ pi = 1
    /\ hi = 1
    /\ reason = <<>>
    /\ wto_rate = None
    /\ tariff_indicator = NoIndicator
    /\ catalog = <<>>
    /\ result = NoResult
    /\ requests = <<>>
    /\ RepoStart
    /\ NoEndpoint
    /\ CacheStart
    /\ StoreStart

\* return (api.py:89, 97, 104, 121, 146, 183, 194, 256, 260, 264, 408)
Return(r, why) == /\ pc' = "done"
                  /\ result' = Ret(r, why)

\* Steps 1-4 (api.py:84-149): the availability request and what follows it up to
\* the first rate query.
FetchAvailability ==
    /\ pc = "start"
    /\ requests' = Append(requests, Req("avail", Url("avail", "-", NoHs, 0, 0), None))
    /\ \/ \E kind \in {"avail_failed", "xml_failed"} :
            /\ Return(None, <<Plain(kind)>>)
            /\ UNCHANGED <<available, used_partner, used_year, reason_parts>>
       \/ \* api.py:93: a body that is not UTF-8 raises UnicodeDecodeError, which
          \* the except clause of api.py:96 does not list
          /\ pc' = "raised"
          /\ UNCHANGED <<result, available, used_partner, used_year, reason_parts>>
       \/ \E doc \in Docs :
            LET av == BuildAvailable(doc, Len(doc))
                sel == SelectYear(av, partner, target_year)
            IN CASE doc = <<>> ->
                         /\ Return(None, <<Plain("no_reporters")>>)
                         /\ UNCHANGED <<available, used_partner, used_year, reason_parts>>
                    [] doc # <<>> /\ YearTextRaises(doc) ->
                         /\ pc' = "raised"
                         /\ UNCHANGED <<result, available, used_partner, used_year, reason_parts>>
                    [] doc # <<>> /\ ~YearTextRaises(doc) /\ DOMAIN av = {} ->
                         /\ Return(None, <<Plain("no_availability")>>)
                         /\ UNCHANGED <<available, used_partner, used_year, reason_parts>>
                    [] OTHER ->
                         /\ available' = av
                         /\ used_partner' = sel.used_partner
                         /\ used_year' = sel.used_year
                         /\ reason_parts' = sel.parts
                         /\ IF sel.used_year.some
                            THEN pc' = "scan" /\ UNCHANGED result
                            ELSE Return(None, <<Plain("no_year")>>)
    /\ UNCHANGED <<args, used_hs, rate, last_query_url, attempted_bilateral, pi, hi,
                   reason, wto_rate, tariff_indicator, catalog>>
    /\ UNCHANGED <<repo_vars, api_vars, cache_vars, store_vars>>

\* Step 5 (api.py:160-201) and the decision of api.py:206: one rate query, and
\* what follows its response up to the next request or the return.
QueryWits ==
    /\ pc = "scan"
    /\ LET p == partners_to_try[pi]
           hs == hs_levels[hi]
           url == QueryUrl(p, hs, used_year.v)
       IN \E resp \in WitsResponses :
          LET b == ScanBody(resp, p, hs, rate, used_hs, used_partner, reason_parts,
                            attempted_bilateral)
              got == IF b.ctl = "break" THEN b.rate ELSE None
              parts == FinalParts(b.parts, b.used_hs, b.used_partner)
              why == WitsReason(parts, url)
          IN /\ requests' = Append(requests, Req("wits", url, got))
             /\ last_query_url' = url
             /\ rate' = b.rate
             /\ used_hs' = b.used_hs
             /\ used_partner' = b.used_partner
             /\ attempted_bilateral' = b.attempted
             /\ CASE b.ctl = "raise" ->
                       /\ pc' = "raised"
                       /\ UNCHANGED <<pi, hi, reason_parts, reason, result>>
                  [] b.ctl = "invalid" ->
                       /\ Return(None, <<InvalidRate(hs, p, resp.raw, url)>>)
                       /\ UNCHANGED <<pi, hi, reason_parts, reason>>
                  [] b.ctl \in {"next", "break"} /\ ~InnerDone(b.ctl, hi) ->
                       /\ hi' = hi + 1
                       /\ reason_parts' = b.parts
                       /\ UNCHANGED <<pc, pi, reason, result>>
                  [] b.ctl \in {"next", "break"} /\ InnerDone(b.ctl, hi)
                                                 /\ ~OuterDone(b.ctl, hi, pi, b.rate) ->
                       /\ pi' = pi + 1
                       /\ hi' = 1
                       /\ reason_parts' = b.parts
                       /\ UNCHANGED <<pc, reason, result>>
                  [] b.ctl \in {"next", "break"} /\ OuterDone(b.ctl, hi, pi, b.rate) ->
                       IF ~b.rate.some THEN
                           /\ Return(None, <<Note("no_data", <<>>, url, None)>>)
                           /\ reason_parts' = b.parts
                           /\ UNCHANGED <<pi, hi, reason>>
                       ELSE
                           /\ reason_parts' = parts
                           /\ reason' = why
                           /\ UNCHANGED <<pi, hi>>
                           /\ IF WtoTriggered(b.rate, partner, wto_api_key)
                              THEN pc' = "wto_indicators" /\ UNCHANGED result
                              ELSE pc' = "done" /\ result' = Finish(b.rate, None, why)
    /\ available' = <<>>
    /\ UNCHANGED <<args, used_year, wto_rate, tariff_indicator, catalog>>
    /\ UNCHANGED <<repo_vars, api_vars, cache_vars, store_vars>>

\* ------------------------------------------- Step 6: WTO cross-reference (api.py:203-397)
\* Indicator names of the catalog, by the keywords the code looks for.  NoName
\* is an entry without a 'code' or 'name' key (api.py:231).
NoName == ""
IndicatorNames == {"MFN average tariff", "MFN average", "Bilateral tariff by product",
                   "Import duty", NoName}
\* api.py:232-234
HasTariffWord(n) == n \in {"MFN average tariff", "Bilateral tariff by product", "Import duty"}
\* api.py:244
HasMfnAverage(n) == n \in {"MFN average tariff", "MFN average"}
\* api.py:294
HasPartnerDim(n) == n = "Bilateral tariff by product"
\* api.py:299
HasProductDim(n) == n = "Bilateral tariff by product"

Catalogs == SeqsUpTo(IndicatorNames, MaxIndicators)

\* A catalog entry: the code is its position in the catalog.
Indicator(code, name) == [code |-> code, name |-> name]

\* api.py:230-247: the position (the code) of the selected indicator, 0 if none;
\* cur is indicator_code so far.
RECURSIVE SelectIndicator(_, _, _)
SelectIndicator(cat, i, cur) ==
    IF i > Len(cat) THEN cur
    ELSE IF cat[i] # NoName /\ HasTariffWord(cat[i])
         THEN IF HasMfnAverage(cat[i]) THEN i
              ELSE SelectIndicator(cat, i + 1, IF cur = 0 THEN i ELSE cur)
         ELSE SelectIndicator(cat, i + 1, cur)

\* api.py:274-308 and api.py:357-367
WtoUrl(ind) == Url("wto",
                   IF HasPartnerDim(ind.name) THEN partner ELSE "-",
                   IF HasProductDim(ind.name) THEN hs_code ELSE NoHs,
                   0, ind.code)
\* The retry sent with the dimensions of the first data query.
SimplifiedUrl_KeepsDimensions(ind) ==
    Url("wto_simplified",
        IF HasPartnerDim(ind.name) THEN partner ELSE "-",
        IF HasProductDim(ind.name) THEN hs_code ELSE NoHs,
        0, ind.code)
SimplifiedUrl(ind) == Url("wto_simplified", "-", NoHs, 0, ind.code)

\* api.py:220-264: the catalog request.  Every failure returns (None, ...).
FetchIndicators ==
    /\ pc = "wto_indicators"
    /\ requests' = Append(requests, Req("wto_indicators", Url("wto_indicators", "-", NoHs, 0, 0), None))
    /\ \/ /\ \E kind \in {"indicators_error", "indicators_http"} :
                /\ Return(None, <<Plain(kind)>>)
          /\ UNCHANGED <<catalog, tariff_indicator>>
       \/ \E cat \in Catalogs :
            LET ind == SelectIndicator(cat, 1, 0)
            IN /\ catalog' = cat
               /\ tariff_indicator' = IF ind = 0 THEN NoIndicator ELSE Indicator(ind, cat[ind])
               /\ IF ind = 0 THEN Return(None, <<Plain("no_indicator")>>)
                  ELSE pc' = "wto_data" /\ UNCHANGED result
    /\ UNCHANGED <<args, available, used_partner, used_year, used_hs, reason_parts, rate,
                   last_query_url, attempted_bilateral, pi, hi, reason, wto_rate>>
    /\ UNCHANGED <<repo_vars, api_vars, cache_vars, store_vars>>

\* The shapes of a WTO data response (api.py:313-397):
\*   exception   requests.get raises RequestException
\*   badjson     200, resp.json() raises ValueError
\*   novalue     200, no Dataset or no item with a Value
\*   value       200, the first Value is raw
\*   nullvalue   200, the first Value is null: float(None) raises TypeError
\*   dimension   not 200, the body names a missing partner or product dimension
\*   error       not 200, another body
\*   undecodable not 200, the body is not UTF-8
WtoResponses == [kind : {"exception", "badjson", "novalue", "nullvalue", "dimension",
                         "error", "undecodable"}, raw : {"-"}]
                  \cup [kind : {"value"}, raw : RawValues \ {"0.0"}]

\* api.py:336-341
CompareNote(w, r, url) == IF w # r THEN Note("discrepancy", <<>>, url, w)
                          ELSE Note("confirmed", <<>>, url, w)

\* api.py:313-397 without the retry: the sentence added to reason (if any), the
\* WTO rate, and how the step ends ("finish", "retry", "raise").
WtoBody(resp, r, url) ==
    LET parsed == ParseFloat(resp.raw)
        quiet == [wto_rate |-> None, notes |-> <<>>, ctl |-> "finish"]
    IN CASE resp.kind = "exception" -> [quiet EXCEPT !.notes = <<Plain("wto_check_failed")>>]
         [] resp.kind = "badjson" -> [quiet EXCEPT !.notes = <<Plain("wto_parse_failed")>>]
         [] resp.kind = "novalue" -> quiet
         [] resp.kind = "nullvalue" -> [quiet EXCEPT !.ctl = "raise"]
         [] resp.kind = "value" ->
                IF parsed.some
                THEN [quiet EXCEPT !.wto_rate = parsed, !.notes = <<CompareNote(parsed, r, url)>>]
                ELSE [quiet EXCEPT !.notes = <<Plain("wto_parse_failed")>>]
         [] resp.kind = "dimension" -> [quiet EXCEPT !.ctl = "retry"]
         [] resp.kind = "error" -> [quiet EXCEPT !.notes = <<Plain("wto_api_error")>>]
         [] resp.kind = "undecodable" -> [quiet EXCEPT !.notes = <<Plain("wto_api_error_status")>>]

QueryWto ==
    /\ pc = "wto_data"
    /\ catalog' = <<>>
    /\ LET url == WtoUrl(tariff_indicator)
       IN \E resp \in WtoResponses :
          LET b == WtoBody(resp, rate, url)
              why == reason \o b.notes
          IN /\ requests' = Append(requests, Req("wto_data", url, b.wto_rate))
             /\ wto_rate' = b.wto_rate
             /\ reason' = why
             /\ CASE b.ctl = "raise" -> pc' = "raised" /\ UNCHANGED result
                  [] b.ctl = "retry" -> pc' = "wto_retry" /\ UNCHANGED result
                  [] b.ctl = "finish" -> pc' = "done" /\ result' = Finish(rate, b.wto_rate, why)
    /\ UNCHANGED <<args, available, used_partner, used_year, used_hs, reason_parts, rate,
                   last_query_url, attempted_bilateral, pi, hi, tariff_indicator>>
    /\ UNCHANGED <<repo_vars, api_vars, cache_vars, store_vars>>

\* The shapes of the response to the simplified retry (api.py:372-390):
\*   exception  requests.get raises: caught at api.py:393
\*   unusable   200, but json() or float() raises: swallowed at api.py:387
\*   novalue    200, no Dataset or no item with a Value
\*   value      200, the first Value is raw
\*   error      not 200
RetryResponses == [kind : {"exception", "unusable", "novalue", "error"}, raw : {"-"}]
                    \cup [kind : {"value"}, raw : RawValues \ {"0.0"}]

\* api.py:372-394
RetryBody(resp, url) ==
    LET parsed == ParseFloat(resp.raw)
        quiet == [wto_rate |-> None, notes |-> <<>>]
    IN CASE resp.kind = "exception" -> [quiet EXCEPT !.notes = <<Plain("wto_api_error_status")>>]
         [] resp.kind \in {"unusable", "novalue"} -> quiet
         [] resp.kind = "value" ->
                IF parsed.some
                THEN [quiet EXCEPT !.wto_rate = parsed,
                                   !.notes = <<Note("general_rate", <<>>, url, parsed)>>]
                ELSE quiet
         [] resp.kind = "error" -> [quiet EXCEPT !.notes = <<Plain("wto_api_error")>>]

RetryWto ==
    /\ pc = "wto_retry"
    /\ LET url == SimplifiedUrl(tariff_indicator)
       IN \E resp \in RetryResponses :
          LET b == RetryBody(resp, url)
              why == reason \o b.notes
          IN /\ requests' = Append(requests, Req("wto_retry", url, b.wto_rate))
             /\ wto_rate' = b.wto_rate
             /\ reason' = why
             /\ pc' = "done"
             /\ result' = Finish(rate, b.wto_rate, why)
    /\ UNCHANGED <<args, available, used_partner, used_year, used_hs, reason_parts, rate,
                   last_query_url, attempted_bilateral, pi, hi, tariff_indicator, catalog>>
    /\ UNCHANGED <<repo_vars, api_vars, cache_vars, store_vars>>

Next == \/ FetchAvailability
        \/ QueryWits
        \/ FetchIndicators
        \/ QueryWto
        \/ RetryWto

Spec == Init /\ [][Next]_vars

\* Every request carries timeout=10 (api.py:86, 165, 222, 321, 372) and the code
\* between two requests has no unbounded loop: a step that is possible is taken.
FairSpec == Spec /\ WF_vars(Next)

\* ======================================================================
\* The reference-table repository (base_repo.py, vector_store.py, system_store.py)
\* ======================================================================
\* Each action is one awaited database or HTTP operation of a coroutine together
\* with the code that runs after it up to the coroutine's next await.

\* The repository object's fields
Inst == [system_store |-> system_store, metadata_columns |-> metadata_columns,
         vector_store |-> vector_store]

\* Where a coroutine gets to: suspended at await p, raised, or returned.
Await(S, p, v) == [S |-> S, pc |-> p, err |-> "", vs |-> v, i |-> 0, arg |-> Unset, rows |-> {}]
Raise(S, kind) == [S |-> S, pc |-> "done", err |-> kind, vs |-> NoVectorStore, i |-> 0,
                   arg |-> Unset, rows |-> {}]
Returned(S, rows) == [S |-> S, pc |-> "done", err |-> "", vs |-> NoVectorStore, i |-> 0,
                      arg |-> Unset, rows |-> rows]

\* The statement after `await self._ensure_initialized()` in each caller
\* (base_repo.py:78, 91, 149): self.vector_store is read again here.
AfterEnsure(S, op) ==
    CASE op = "find_items" ->
             IF ~S.vector_store.some \/ ~S.vector_store.store
             THEN Raise(S, "AttributeError")
             ELSE Await(S, "search", S.vector_store)
      [] op = "fetch_data" ->
             IF ~S.vector_store.some THEN Raise(S, "AttributeError")
                                     ELSE Await(S, "tr_drop", S.vector_store)
      [] op = "drop" ->
             IF ~S.vector_store.some THEN Raise(S, "AttributeError")
                                     ELSE Await(S, "vs_drop", S.vector_store)

\* base_repo.py:61-68
EnsureVectorStore(S, op, n) ==
    IF ~S.vector_store.some
    THEN LET v == NewVectorStore(n, S.metadata_columns)
         IN Await([S EXCEPT !.vector_store = v], "vs_init", v)
    ELSE AfterEnsure(S, op)

\* base_repo.py:56-57 with system_store.py:92-94 (get_item raises without a pool)
EnsureMetadata(S, op, n) ==
    IF ~S.metadata_columns.some
    THEN IF S.system_store # "connected" THEN Raise(S, "PoolNotInitialized")
                                         ELSE Await(S, "get_item", NoVectorStore)
    ELSE EnsureVectorStore(S, op, n)

\* base_repo.py:52-54
EnsureInitialized(S, op, n) ==
    IF S.system_store = "None"
    THEN Await([S EXCEPT !.system_store = "created"], "ss_connect", NoVectorStore)
    ELSE EnsureMetadata(S, op, n)

\* _load_metadata_columns (base_repo.py:104-110): what the cache holds, or [].
LoadMetadataColumns(item) == IF item.some THEN item ELSE Cols({})

\* _save_metadata_columns (base_repo.py:116-120) with system_store.py:80-83
SaveMetadataColumns(S) ==
    IF S.system_store # "connected" THEN Raise(S, "PoolNotInitialized")
    ELSE [Await(S, "upsert", NoVectorStore) EXCEPT !.arg = S.metadata_columns]

\* drop after the table is gone (base_repo.py:79-83)
AfterVsDrop(S) ==
    IF ~S.vector_store.some THEN Raise(S, "AttributeError")
    ELSE LET S1 == [S EXCEPT !.vector_store = NoVectorStore]
         IN IF S1.system_store # "connected" THEN Raise(S1, "PoolNotInitialized")
                                              ELSE Await(S1, "delete_item", NoVectorStore)

\* A store object can read and write the table if the table exists and has the
\* object's metadata columns (vector_store.py:39-44, 76, 80).
Usable(tbl, v) == tbl.exists /\ v.cols \subseteq tbl.cols

\* self.store = ... on object v (vector_store.py:39, 61), seen through the
\* repository if v is still its vector_store.
SetStore(S, v) == IF S.vector_store.some /\ S.vector_store.id = v.id
                  THEN [S EXCEPT !.vector_store.store = TRUE]
                  ELSE S

\* An index is complete if it holds the rows of exactly one rebuild.
IsComplete(rows) == \E t \in Tasks : rows = {Row(t, i) : i \in 1 .. NumRows}

Active(t) == task[t].pc \notin {"idle", "done"}

\* Coroutine t moves to `out`, the database to (tbl, items).
Settle(t, tk, out, tbl, items) ==
    LET status == IF out.err = "" THEN "ok" ELSE "error"
    IN /\ system_store' = out.S.system_store
       /\ metadata_columns' = out.S.metadata_columns
       /\ vector_store' = out.S.vector_store
       /\ table' = tbl
       /\ system_items' = items
       /\ task' = [tk EXCEPT ![t].pc = out.pc, ![t].vs = out.vs, ![t].i = out.i,
                             ![t].arg = out.arg,
                             ![t].outcome = IF out.pc = "done"
                                            THEN [status |-> status, kind |-> out.err,
                                                  rows |-> out.rows]
                                            ELSE NoOutcome]
       /\ last_done' = IF out.pc = "done" THEN [op |-> tk[t].op, status |-> status]
                                          ELSE last_done
       /\ UNCHANGED <<cascade_vars, api_vars, cache_vars, store_vars>>

\* A caller starts drop, find_items or fetch_data (base_repo.py:70, 86, 134) and
\* runs to its first await.
Call(t) ==
    /\ ~Active(t)
    /\ calls < MaxCalls
    /\ \E op \in Ops :
         LET n == calls + 1
             others == {u \in Tasks \ {t} : Active(u)}
             mine == [IdleTask EXCEPT
                        !.op = op, !.n = n,
                        !.at_call = [last |-> last_done,
                                     exists |-> table.exists,
                                     complete |-> /\ table.exists
                                                  /\ IsComplete(table.rows)
                                                  /\ system_items.some,
                                     company |-> {task[u].op : u \in others},
                                     other |-> other_items,
                                     table |-> table,
                                     items |-> system_items,
                                     schema |-> metadata_columns]]
             tk == [u \in Tasks |->
                      IF u = t THEN mine
                      ELSE IF u \in others
                           THEN [task[u] EXCEPT !.at_call.company = @ \cup {op}]
                           ELSE task[u]]
         IN /\ calls' = n
            /\ UNCHANGED other_items
            /\ IF op = "fetch_data"
               THEN Settle(t, tk, Await(Inst, "http", NoVectorStore), table, system_items)
               ELSE Settle(t, tk, EnsureInitialized(Inst, op, n), table, system_items)

\* fetch_data's request (base_repo.py:141-148): it fails, or the frame arrives and
\* its columns become the repository's metadata columns.
Http(t) ==
    /\ task[t].pc = "http"
    /\ \/ Settle(t, task, Raise(Inst, "HTTPError"), table, system_items)
       \/ Settle(t, task,
                 EnsureInitialized([Inst EXCEPT !.metadata_columns = FrameMetadata],
                                   "fetch_data", task[t].n),
                 table, system_items)
    /\ UNCHANGED <<calls, other_items>>

\* SystemStore.connect (system_store.py:17-34)
SsConnect(t) ==
    /\ task[t].pc = "ss_connect"
    /\ Settle(t, task,
              EnsureMetadata([Inst EXCEPT !.system_store = "connected"], task[t].op, task[t].n),
              table, system_items)
    /\ UNCHANGED <<calls, other_items>>

\* get_item inside _load_metadata_columns, then base_repo.py:57-59
GetItem(t) ==
    /\ task[t].pc = "get_item"
    /\ LET loaded == LoadMetadataColumns(system_items)
           S1 == [Inst EXCEPT !.metadata_columns = loaded]
       IN Settle(t, task,
                 IF ~loaded.some THEN Raise(S1, "NotInitialized")
                                 ELSE EnsureVectorStore(S1, task[t].op, task[t].n),
                 table, system_items)
    /\ UNCHANGED <<calls, other_items>>

\* VectorStore.connect, first await (vector_store.py:28-38): the table is created
\* unless it exists.
VsInit(t) ==
    /\ task[t].pc = "vs_init"
    /\ Settle(t, task, Await(Inst, "vs_create", task[t].vs),
              IF table.exists THEN table ELSE CreateTable(task[t].vs.cols), system_items)
    /\ UNCHANGED <<calls, other_items>>

\* VectorStore.connect, second await (vector_store.py:39-44), then the caller goes on.
VsCreate(t) ==
    /\ task[t].pc = "vs_create"
    /\ Settle(t, task,
              IF ~Usable(table, task[t].vs) THEN Raise(Inst, "StoreError")
              ELSE AfterEnsure(SetStore(Inst, task[t].vs), task[t].op),
              table, system_items)
    /\ UNCHANGED <<calls, other_items>>

\* find_content (vector_store.py:78-82): the reader gets the rows of the table.
Search(t) ==
    /\ task[t].pc = "search"
    /\ Settle(t, task,
              IF ~Usable(table, task[t].vs) THEN Raise(Inst, "StoreError")
                                            ELSE Returned(Inst, table.rows),
              table, system_items)
    /\ UNCHANGED <<calls, other_items>>

\* truncate_store, first await (vector_store.py:51)
TrDrop(t) ==
    /\ task[t].pc = "tr_drop"
    /\ Settle(t, task, Await(Inst, "tr_init", task[t].vs), NoTable, system_items)
    /\ UNCHANGED <<calls, other_items>>

\* truncate_store, second await (vector_store.py:54-58): not guarded against an
\* existing table as connect is.
TrInit(t) ==
    /\ task[t].pc = "tr_init"
    /\ IF table.exists
       THEN Settle(t, task, Raise(Inst, "AlreadyExists"), table, system_items)
       ELSE Settle(t, task, Await(Inst, "tr_create", task[t].vs),
                   CreateTable(task[t].vs.cols), system_items)
    /\ UNCHANGED <<calls, other_items>>

\* truncate_store, third await (vector_store.py:61-66), then add_dataframe's first row
TrCreate(t) ==
    /\ task[t].pc = "tr_create"
    /\ Settle(t, task,
              IF ~Usable(table, task[t].vs) THEN Raise(Inst, "StoreError")
              ELSE [Await(SetStore(Inst, task[t].vs), "add", task[t].vs) EXCEPT !.i = 1],
              table, system_items)
    /\ UNCHANGED <<calls, other_items>>

\* add_dataframe's aadd_documents (vector_store.py:70-76), then the next row or
\* _save_metadata_columns (base_repo.py:153)
Add(t) ==
    /\ task[t].pc = "add"
    /\ IF ~Usable(table, task[t].vs)
       THEN Settle(t, task, Raise(Inst, "StoreError"), table, system_items)
       ELSE Settle(t, task,
                   IF task[t].i < NumRows
                   THEN [Await(Inst, "add", task[t].vs) EXCEPT !.i = task[t].i + 1]
                   ELSE SaveMetadataColumns(Inst),
                   [table EXCEPT !.rows = @ \cup {Row(t, task[t].i)}], system_items)
    /\ UNCHANGED <<calls, other_items>>

\* A database call awaited by fetch_data's truncate_store, add_dataframe or
\* _save_metadata_columns raises without effect (a lost connection, a rejected
\* statement); fetch_data's handler re-raises it (base_repo.py:155-156).
DbError(t) ==
    /\ task[t].pc \in {"tr_drop", "tr_init", "tr_create", "add", "upsert"}
    /\ Settle(t, task, Raise(Inst, "DbError"), table, system_items)
    /\ UNCHANGED <<calls, other_items>>

\* upsert_item (system_store.py:60-67), then fetch_data returns True
Upsert(t) ==
    /\ task[t].pc = "upsert"
    /\ Settle(t, task, Returned(Inst, {}), table, task[t].arg)
    /\ UNCHANGED <<calls, other_items>>

\* The rows of the system store's table, by key.
MetadataKey == "hs_code_metadata_columns"
OtherKey == "country_code_metadata_columns"
OtherColumns == {"countrycode", "name"}
Rows == [k \in {MetadataKey, OtherKey} |-> IF k = MetadataKey THEN system_items
                                                               ELSE other_items]
\* The statement deleting every row of the table.
DeleteRow_AllKeys(rows, key) == [k \in DOMAIN rows |-> Unset]
\* system_store.py:76-78: DELETE ... WHERE key = $1
DeleteRow(rows, key) == [k \in DOMAIN rows |-> IF k = key THEN Unset ELSE rows[k]]

\* VectorStore.drop (vector_store.py:85-90), then base_repo.py:79-83
VsDrop(t) ==
    /\ task[t].pc = "vs_drop"
    /\ Settle(t, task, AfterVsDrop(Inst), NoTable, system_items)
    /\ UNCHANGED <<calls, other_items>>

\* delete_item (system_store.py:76-78), then base_repo.py:84
DeleteItem(t) ==
    /\ task[t].pc = "delete_item"
    /\ LET after == DeleteRow(Rows, MetadataKey)
       IN /\ Settle(t, task, Returned([Inst EXCEPT !.metadata_columns = Unset], {}), table,
                    after[MetadataKey])
          /\ other_items' = after[OtherKey]
    /\ UNCHANGED calls

\* The other repository saves its metadata columns under its own key
\* (base_repo.py:112-120 of the CountryCodeRepo instance).
OtherSave ==
    /\ ~other_items.some
    /\ other_items' = Cols(OtherColumns)
    /\ UNCHANGED <<system_store, metadata_columns, vector_store, table, system_items,
                   task, calls, last_done>>
    /\ UNCHANGED <<cascade_vars, api_vars, cache_vars, store_vars>>

\* One step of coroutine t.
RepoStep(t) ==
    \/ Call(t)
    \/ Http(t)
    \/ SsConnect(t)
    \/ GetItem(t)
    \/ VsInit(t)
    \/ VsCreate(t)
    \/ Search(t)
    \/ TrDrop(t)
    \/ TrInit(t)
    \/ TrCreate(t)
    \/ Add(t)
    \/ DbError(t)
    \/ Upsert(t)
    \/ VsDrop(t)
    \/ DeleteItem(t)

RepoNext == \/ \E t \in Tasks : RepoStep(t)
            \/ OtherSave

\* The repository alone: the cascade stays where it starts.
RepoInit == Init /\ hs_code = <<8, 5>> /\ partner = World /\ wto_api_key = ""

RepoSpec == RepoInit /\ [][RepoNext]_vars

\* The repository called by one coroutine at a time: each call returns before
\* the next one starts.
SeqRepoNext == \/ RepoStep(1)
               \/ OtherSave

SeqRepoSpec == RepoInit /\ [][SeqRepoNext]_vars

\* ------------------------------------------- singleton_cache (singleton.py:7-37)
\* The wrapper runs in the thread that calls it; the interpreter may switch
\* threads between any two of its steps: the membership test (30), the call of
\* the wrapped function (31), the store and return (32-34), the read of the
\* cached value (35).
Busy(th) == thread[th].pc # "idle"

\* The cache written with an entry for a None result as well.
Stored_NoneIncluded(c, res) == Entry(res)
\* singleton.py:32-33
Stored(c, res) == IF res.some THEN Entry(res) ELSE c

\* The wrapper returns ret to thread th.
WReturn(th, ret) ==
    /\ wcalls' = Append(wcalls, [th |-> th, arg |-> thread[th].arg, ret |-> ret,
                                 invoked |-> thread[th].invoked, alone |-> thread[th].alone])
    /\ thread' = [thread EXCEPT ![th] = IdleThread]

\* A thread calls the wrapper.
WCall(th) ==
    /\ ~Busy(th)
    /\ Len(wcalls) + Cardinality({o \in Threads : Busy(o)}) < MaxWrapperCalls
    /\ \E arg \in WrapperArgs :
          thread' = [o \in Threads |->
                        IF o = th
                        THEN [IdleThread EXCEPT !.pc = "test", !.arg = arg,
                                                !.alone = \A x \in Threads : ~Busy(x)]
                        ELSE IF Busy(o) THEN [thread[o] EXCEPT !.alone = FALSE]
                        ELSE thread[o]]
    /\ UNCHANGED <<cache, invocations, instances, wcalls>>
    /\ UNCHANGED <<cascade_vars, repo_vars, api_vars, store_vars>>

\* singleton.py:30: if cache_key not in _cache
Test(th) ==
    /\ thread[th].pc = "test"
    /\ thread' = [thread EXCEPT ![th].pc = IF cache.present THEN "read" ELSE "func"]
    /\ UNCHANGED <<cache, invocations, instances, wcalls>>
    /\ UNCHANGED <<cascade_vars, repo_vars, api_vars, store_vars>>

\* singleton.py:31: result = func(*args, **kwargs); the function returns None or
\* a new object.
Func(th) ==
    /\ thread[th].pc = "func"
    /\ invocations' = invocations + 1
    /\ \E res \in {NoValue, Value(thread[th].arg, invocations + 1)} :
          /\ thread' = [thread EXCEPT ![th].pc = "store", ![th].result = res,
                                      ![th].invoked = TRUE]
          /\ instances' = IF res.some THEN instances \cup {res} ELSE instances
    /\ UNCHANGED <<cache, wcalls>>
    /\ UNCHANGED <<cascade_vars, repo_vars, api_vars, store_vars>>

\* singleton.py:32-34
Store(th) ==
    /\ thread[th].pc = "store"
    /\ cache' = Stored(cache, thread[th].result)
    /\ WReturn(th, thread[th].result)
    /\ UNCHANGED <<invocations, instances>>
    /\ UNCHANGED <<cascade_vars, repo_vars, api_vars, store_vars>>

\* singleton.py:35: return _cache[cache_key]
Read(th) ==
    /\ thread[th].pc = "read"
    /\ WReturn(th, cache.v)
    /\ UNCHANGED <<cache, invocations, instances>>
    /\ UNCHANGED <<cascade_vars, repo_vars, api_vars, store_vars>>

CacheNext == \E th \in Threads :
                \/ WCall(th)
                \/ Test(th)
                \/ Func(th)
                \/ Store(th)
                \/ Read(th)

\* The wrapper alone: nothing else runs.
CacheInit == RepoInit

CacheSpec == CacheInit /\ [][CacheNext]_vars

\* The system store alone, called by one caller.
StoreNext == \/ connect
             \/ add_item
             \/ upsert_item
             \/ get_item
             \/ delete_item

StoreSpec == RepoInit /\ [][StoreNext]_vars

\* ------------------------------------------- The endpoint get_tariff (api.py:416-441)
\* What the index answers to a resolver's query with top_k = 1: a list with no
\* item or with one item (here: its code), or the repository call raises.
ZeroHs == <<0, 0, 0, 0, 0, 0>>
HsHits == {<<>>} \cup {<<c>> : c \in HsCodes}
ReporterHits == {<<>>} \cup {<<c>> : c \in Reporters}
PartnerHits == {<<>>} \cup {<<c>> : c \in Partners}

\* api.py:44-45 and api.py:63-64: the returned tuple is (code, result[0]); its
\* second element is evaluated whether or not the list is empty, and result[0]
\* of an empty list raises IndexError.
FirstItem(hits) == IF hits = <<>> THEN [raised |-> TRUE] ELSE [raised |-> FALSE]
FindHsCode(hits) ==
    LET code == IF hits # <<>> THEN hits[1] ELSE ZeroHs
        ref == FirstItem(hits)
    IN [raised |-> ref.raised, code |-> code]
FindCountryCode(hits) ==
    LET code == IF hits # <<>> THEN hits[1] ELSE World
        ref == FirstItem(hits)
    IN [raised |-> ref.raised, code |-> code]

\* One entry of the log of resolver calls.
\* index is what the repository did: "empty" (no item), "hit" or "error" (the
\* call raised); raised is whether the resolver raised.
Resolution(fn, hits, raised) ==
    [fn |-> fn, index |-> IF hits = <<>> THEN "empty" ELSE "hit", raised |-> raised]
RepoRaised(fn) == [fn |-> fn, index |-> "error", raised |-> TRUE]

\* A request arrives: req.year and tariff_config.wto_api_key are fixed, nothing
\* is resolved and the cascade is not called yet.
ApiInit ==
    /\ hs_code = NoHs
    /\ partner = "-"
    /\ reporter = "-"
    /\ target_year \in TargetYears
    /\ wto_api_key \in ApiKeys
    /\ pc = "uncalled"
    /\ available = <<>>
    /\ used_partner = "-"
    /\ used_year = None
    /\ used_hs = NoHs
    /\ reason_parts = <<>>
    /\ rate = None
    /\ last_query_url = NoUrl
    /\ attempted_bilateral = FALSE
    /\ pi = 1
    /\ hi = 1
    /\ reason = <<>>
    /\ wto_rate = None
    /\ tariff_indicator = NoIndicator
    /\ catalog = <<>>
    /\ result = NoResult
    /\ requests = <<>>
    /\ RepoStart
    /\ CacheStart
    /\ StoreStart
    /\ gt_pc = "find_hs_code"
    /\ gt_hs_code = NoHs
    /\ reporter_code = "-"
    /\ partner_code = "-"
    /\ resolutions = <<>>
    /\ response = NoResponse

\* The call with the two country codes in each other's place.
CascadeArgs_Swapped(hs, par, rep) == [hs_code |-> hs, partner |-> rep, reporter |-> par]
\* api.py:423: request_tariff_from_wits(hs_code, partner_code, reporter_code, ...)
CascadeArgs(hs, par, rep) == [hs_code |-> hs, partner |-> par, reporter |-> rep]

\* The frame of a resolver step that does not reach the cascade.
CascadeNotCalled ==
    UNCHANGED <<cascade_vars, repo_vars, cache_vars, store_vars, response>>

\* api.py:418: await find_hs_code(req.product, hs_code_repo)
ResolveHs ==
    /\ gt_pc = "find_hs_code"
    /\ \/ /\ resolutions' = Append(resolutions, RepoRaised("find_hs_code"))
          /\ gt_pc' = "failed"
          /\ UNCHANGED gt_hs_code
       \/ \E hits \in HsHits :
            LET r == FindHsCode(hits)
            IN /\ resolutions' = Append(resolutions, Resolution("find_hs_code", hits, r.raised))
               /\ IF r.raised THEN gt_pc' = "failed" /\ UNCHANGED gt_hs_code
                  ELSE gt_pc' = "find_reporter" /\ gt_hs_code' = r.code
    /\ UNCHANGED <<reporter_code, partner_code>>
    /\ CascadeNotCalled

\* api.py:419: await find_country_code(req.reporter, is_reporter=True, ...)
ResolveReporter ==
    /\ gt_pc = "find_reporter"
    /\ \/ /\ resolutions' = Append(resolutions, RepoRaised("find_reporter"))
          /\ gt_pc' = "failed"
          /\ UNCHANGED reporter_code
       \/ \E hits \in ReporterHits :
            LET r == FindCountryCode(hits)
            IN /\ resolutions' = Append(resolutions, Resolution("find_reporter", hits, r.raised))
               /\ IF r.raised THEN gt_pc' = "failed" /\ UNCHANGED reporter_code
                  ELSE gt_pc' = "find_partner" /\ reporter_code' = r.code
    /\ UNCHANGED <<gt_hs_code, partner_code>>
    /\ CascadeNotCalled

\* api.py:420-423: await find_country_code(req.partner, is_reporter=False, ...)
\* and, if it returns, the call of request_tariff_from_wits up to its first
\* request.
ResolvePartner ==
    /\ gt_pc = "find_partner"
    /\ \/ /\ resolutions' = Append(resolutions, RepoRaised("find_partner"))
          /\ gt_pc' = "failed"
          /\ UNCHANGED <<partner_code, cascade_vars>>
       \/ \E hits \in PartnerHits :
            LET r == FindCountryCode(hits)
            IN /\ resolutions' = Append(resolutions, Resolution("find_partner", hits, r.raised))
               /\ IF r.raised
                  THEN /\ gt_pc' = "failed"
                       /\ UNCHANGED <<partner_code, cascade_vars>>
                  ELSE /\ gt_pc' = "cascade"
                       /\ partner_code' = r.code
                       /\ hs_code' = CascadeArgs(gt_hs_code, r.code, reporter_code).hs_code
                       /\ partner' = CascadeArgs(gt_hs_code, r.code, reporter_code).partner
                       /\ reporter' = CascadeArgs(gt_hs_code, r.code, reporter_code).reporter
                       /\ pc' = "start"
                       /\ UNCHANGED <<target_year, wto_api_key, available, used_partner,
                                      used_year, used_hs, reason_parts, rate, last_query_url,
                                      attempted_bilateral, pi, hi, reason, wto_rate,
                                      tariff_indicator, catalog, result, requests>>
    /\ UNCHANGED <<gt_hs_code, reporter_code, response, repo_vars, cache_vars, store_vars>>

\* api.py:423-435: the cascade returned (the response is built) or raised (the
\* exception leaves get_tariff).
Respond ==
    /\ gt_pc = "cascade"
    /\ pc \in {"done", "raised"}
    /\ IF pc = "done"
       THEN /\ gt_pc' = "responded"
            /\ response' = [sent |-> TRUE, hs_code |-> gt_hs_code, tariff |-> result.rate,
                            tariff_fallback |-> result.reason]
       ELSE /\ gt_pc' = "failed"
            /\ UNCHANGED response
    /\ UNCHANGED <<gt_hs_code, reporter_code, partner_code, resolutions>>
    /\ UNCHANGED <<cascade_vars, repo_vars, cache_vars, store_vars>>

\* api.py:423: request_tariff_from_wits runs, one request at a time.
Cascade == gt_pc = "cascade" /\ Next

ApiNext == \/ ResolveHs
           \/ ResolveReporter
           \/ ResolvePartner
           \/ Cascade
           \/ Respond

ApiSpec == ApiInit /\ [][ApiNext]_vars

\* ======================================================================
\* Properties
\* ======================================================================
WitsIdx == {i \in 1 .. Len(requests) : requests[i].src = "wits"}
SecondaryIdx == {i \in 1 .. Len(requests) :
                    requests[i].src \in {"wto_indicators", "wto_data", "wto_retry"}}
WtoContacted == \E i \in 1 .. Len(requests) : requests[i].src = "wto_indicators"
\* The rate queries that yielded a numeric rate, and the last of them: the one
\* whose response is the primary rate.
NumericIdx == {i \in WitsIdx : requests[i].got.some}
PrimaryIdx == CHOOSE i \in NumericIdx : \A j \in NumericIdx : j <= i
\* api.py:201 was reached: the scan ended with a primary rate.
Step3Completed == reason # <<>>
\* The run went through the final selection of api.py:399-408.
ReachedFinalSelection == pc = "done" /\ Len(result.reason) > 0
                         /\ result.reason[1].kind \in {"no_fallback", "fallback"}
\* The relaxation notes of the returned reason.
TraceParts == IF Len(result.reason) > 0 /\ result.reason[1].kind = "fallback"
              THEN result.reason[1].parts ELSE <<>>
HasPart(parts, kind) == \E k \in 1 .. Len(parts) : parts[k].kind = kind
HasSentence(why, kind) == \E k \in 1 .. Len(why) : why[k].kind = kind
\* Step 3's pairs in the order partner-outer, level-inner.
AllPairs == [k \in 1 .. 3 * Len(partners_to_try) |->
                <<partners_to_try[((k - 1) \div 3) + 1], hs_levels[((k - 1) % 3) + 1]>>]

\* C1: in every run that returns a rate, the trace names a relaxation only for a
\* dimension that was relaxed: 'partner 000' only if the partner of the query
\* that produced the primary rate is not the requested partner, 'HS code' only
\* if that query's level is not the requested code, 'year' only if the selected
\* year is not target_year.
C1_TraceOnlyRealRelaxations ==
    (pc = "done" /\ result.rate.some /\ NumericIdx # {}) =>
        /\ (\E k \in 1 .. Len(TraceParts) : TraceParts[k] = PartnerPart(World))
              => requests[PrimaryIdx].url.p # partner
        /\ HasPart(TraceParts, "hs") => requests[PrimaryIdx].url.hs # hs_code
        /\ HasPart(TraceParts, "year") => requests[PrimaryIdx].url.yr # target_year

\* C2: the selected year is never greater than target_year, and every rate
\* query is issued for the selected year.
C2_YearNeverAfterTarget ==
    /\ used_year.some => used_year.v <= target_year
    /\ \A i \in WitsIdx : used_year.some /\ requests[i].url.yr = used_year.v

\* C2 witness: the availability document lists a year after target_year and a
\* year has been selected.
C2_Witness ==
    /\ pc = "scan"
    /\ \E y \in DOMAIN available : y > target_year
    /\ used_year.some

\* C3: a failure of the secondary cross-reference is swallowed: once the
\* secondary source has been contacted the run does not raise and returns a
\* present rate.
C3_SecondaryFailureIsSoft ==
    WtoContacted => /\ pc # "raised"
                    /\ pc = "done" => result.rate.some

\* C4: whenever some rate query returned a numeric rate, the returned rate is
\* present.
C4_RatePresentIfAnyNumeric ==
    (pc = "done" /\ NumericIdx # {}) => result.rate.some

\* C5: once Step 3 has ended with a primary rate, the secondary source is
\* contacted iff (the rate is 0 or the requested partner is not '000') and the
\* key is not empty; in no other run is a secondary request issued.
C5_SecondaryIffTriggered ==
    LET triggered == (rate.v = 0 \/ partner # World) /\ wto_api_key # ""
    IN /\ SecondaryIdx # {} => Step3Completed /\ triggered /\ WtoContacted
       /\ (pc \in {"done", "raised"} /\ Step3Completed /\ triggered) => WtoContacted
       /\ pc \in {"wto_indicators", "wto_data", "wto_retry"} => Step3Completed /\ triggered

\* C5 witness: a run with a non-zero rate for a bilateral request and a key, which
\* contacted the secondary source and returned.
C5_Witness ==
    /\ pc = "done"
    /\ rate = Some(5)
    /\ partner # World
    /\ WtoContacted

\* C6: final rate selection (api.py:403-408): in every run that reaches it, the
\* returned rate is the secondary rate if that is present, non-zero and
\* different from the primary rate, and the primary rate otherwise.
C6_FinalRateSelection ==
    ReachedFinalSelection =>
        IF wto_rate.some /\ wto_rate.v # 0 /\ wto_rate.v # rate.v
        THEN result.rate = wto_rate
        ELSE result.rate = rate

\* C6 witness: a zero secondary rate met a non-zero primary rate at the selection.
C6_Witness ==
    /\ ReachedFinalSelection
    /\ wto_rate = Some(0)
    /\ rate = Some(5)

\* C7: after a non-zero rate for the requested code no further rate query is
\* issued, the code level used is the requested code and no 'HS code' relaxation
\* is recorded.
C7_NoRelaxationAfterNonZeroAtFullCode ==
    \A i \in WitsIdx :
        (requests[i].url.hs = hs_code /\ requests[i].got.some /\ requests[i].got.v # 0) =>
            /\ \A j \in WitsIdx : j <= i
            /\ used_hs = hs_code
            /\ ~HasPart(reason_parts, "hs")
            /\ ~HasPart(TraceParts, "hs")

\* C7 witness: the first query of a bilateral request answered with a non-zero
\* rate (five pairs were still open) and the run has returned.
C7_Witness ==
    /\ pc = "done"
    /\ partner # World
    /\ Len(hs_code) = 6
    /\ 2 \in WitsIdx
    /\ requests[2].got = Some(5)

\* C8: the scan stops only on a non-zero rate or when every pair has been
\* queried: a run whose scan has ended without a non-zero rate (a zero response
\* included) has queried every (partner, level) pair.
C8_ZeroDoesNotStopScan ==
    ((Step3Completed \/ (pc = "done" /\ HasSentence(result.reason, "no_data")))
        /\ \A i \in NumericIdx : requests[i].got.v = 0)
    => \A k \in 1 .. Len(AllPairs) :
           \E i \in WitsIdx : <<requests[i].url.p, requests[i].url.hs>> = AllPairs[k]

\* C9: whenever a rate query yields exactly zero, a zero-rate note naming the
\* level and the partner of that query is in the trace.
C9_ZeroRateNoteRecorded ==
    \A i \in WitsIdx :
        requests[i].got = Some(0) =>
            \E k \in 1 .. Len(reason_parts) :
                reason_parts[k] = ZeroPart(requests[i].url.hs, requests[i].url.p)

\* C10: whenever Step 3 ends with a primary rate of zero, the returned reason
\* holds the zero-rate warning.
C10_ZeroWarningAlways ==
    (pc = "done" /\ Step3Completed /\ rate = Some(0)) => HasSentence(result.reason, "zero_warning")

\* ------------------------------------------------- repository properties
\* The call that returned last was a successful drop.
DropReturned == [op |-> "drop", status |-> "ok"]

\* A fetch_data call between the first effect of its truncate and its last insert.
Rebuilding(t) == task[t].op = "fetch_data" /\ task[t].pc \in {"tr_init", "tr_create", "add"}

\* C11: a find_items call made after drop() has returned and left no table, with no
\* other call running beside it, fails with the not-initialized error; while it runs
\* the vector table is not re-created and the search is never sent.
C11_QueryAfterDropNotInitialized ==
    \A t \in Tasks :
        (/\ task[t].op = "find_items"
         /\ task[t].at_call.last = DropReturned
         /\ ~task[t].at_call.exists
         /\ task[t].at_call.company = {})
        => /\ Active(t) => ~table.exists /\ task[t].pc # "search"
           /\ task[t].pc = "done" => /\ task[t].outcome.status = "error"
                                     /\ task[t].outcome.kind = "NotInitialized"

\* C12: a find_items call that started on a complete index and ran beside nothing
\* but rebuilds and other readers returns the rows of exactly one rebuild.
C12_RebuildAtomicForReaders ==
    \A t \in Tasks :
        (/\ task[t].op = "find_items"
         /\ task[t].pc = "done"
         /\ task[t].outcome.status = "ok"
         /\ task[t].at_call.complete
         /\ task[t].at_call.company \subseteq {"fetch_data", "find_items"})
        => IsComplete(task[t].outcome.rows)

\* C13: at most one fetch_data is between its truncate and its last insert, and
\* once fetch_data calls that ran beside nothing but each other have all returned
\* True the table holds the rows of exactly one of them.
C13_RebuildsSerialized ==
    /\ Cardinality({t \in Tasks : Rebuilding(t)}) <= 1
    /\ (\A t \in Tasks : /\ task[t].op = "fetch_data"
                         /\ task[t].pc = "done"
                         /\ task[t].outcome.status = "ok"
                         /\ task[t].at_call.company \subseteq {"fetch_data"})
       => table.exists /\ IsComplete(table.rows)

\* ------------------------------------------------- cascade properties, continued
\* The reasons returned when the availability step yields no year table
\* (api.py:89, 97, 104, 121).
SourceUnavailable == {"avail_failed", "xml_failed", "no_reporters", "no_availability"}

\* The function ended by an exception before any rate query was sent.
RaisedInAvailability == pc = "raised" /\ WitsIdx = {}

\* C14: an availability step that cannot complete ends the cascade with an absent
\* rate and a source-unavailable reason, after the availability request alone; it
\* ends in no other kind of failure.
C14_AvailabilityFailureIsSourceUnavailable ==
    /\ (pc = "done" /\ \E k \in SourceUnavailable : HasSentence(result.reason, k))
       => ~result.rate.some /\ Len(requests) = 1
    /\ ~RaisedInAvailability

\* The available years that are not after the target year, and the greatest of a
\* set of years.
YearsUpTo == {y \in DOMAIN available : y <= target_year}
Greatest(S) == CHOOSE x \in S : \A y \in S : y <= x

\* C15: when the availability table has years up to the target year but none of
\* them lists the requested partner (which is not '000'), the year is selected by
\* the world-aggregate scan and the 'partner 000' relaxation is recorded; when the
\* table has no year up to the target year the function returns an absent rate
\* with the reason 'no available year' and has sent no rate query.
C15_PartnerRelaxedOrNoYear ==
    /\ (/\ YearsUpTo # {}
        /\ partner # World
        /\ \A y \in YearsUpTo : partner \notin available[y])
       => /\ pc = "scan"
          /\ used_partner = World
          /\ used_year = Some(Greatest(YearsUpTo))
          /\ Len(reason_parts) > 0 /\ reason_parts[1] = PartnerPart(World)
    /\ (DOMAIN available # {} /\ YearsUpTo = {})
       => /\ pc = "done"
          /\ result = Ret(None, <<Plain("no_year")>>)
          /\ WitsIdx = {} /\ SecondaryIdx = {}

C15_Witness ==
    /\ pc = "scan"
    /\ partner # World
    /\ YearsUpTo # {}
    /\ \A y \in YearsUpTo : partner \notin available[y]
    /\ \E y \in DOMAIN available : y > target_year /\ partner \in available[y]
    /\ used_partner = World

\* The years up to the target year that list the requested partner; '000' counts
\* as listed for every year.
ListedYears == {y \in YearsUpTo : partner = World \/ partner \in available[y]}

\* C16 as stated: every selected year is the greatest available year up to the
\* target year that lists the requested partner, and the target year is selected
\* whenever it is such a year.
C16_SelectedYearListsPartner ==
    (DOMAIN available # {})
    => /\ used_year.some => ListedYears # {} /\ used_year.v = Greatest(ListedYears)
       /\ target_year \in ListedYears => used_year = Some(target_year)

\* C16, amended: if some year up to the target year lists the requested partner,
\* the selected year is the greatest such year and the partner is kept; the target
\* year is selected whenever it lists the partner; if none lists it, the selected
\* year is the greatest available year up to the target year, with the partner
\* relaxed to '000'.
C16_SelectedYear ==
    (DOMAIN available # {})
    => /\ ListedYears # {} => used_year = Some(Greatest(ListedYears)) /\ used_partner = partner
       /\ target_year \in ListedYears => used_year = Some(target_year)
       /\ (ListedYears = {} /\ YearsUpTo # {})
          => used_year = Some(Greatest(YearsUpTo)) /\ used_partner = World
       /\ YearsUpTo = {} => ~used_year.some

C16_Witness ==
    /\ pc = "scan"
    /\ partner # World
    /\ target_year \in DOMAIN available
    /\ partner \notin available[target_year]
    /\ ListedYears # {}
    /\ used_year = Some(Greatest(ListedYears))
    /\ used_year.v < target_year

\* part is one of the relaxation notes of the returned reason.
Recorded(part) == \E k \in 1 .. Len(TraceParts) : TraceParts[k] = part

\* C17: in every run that returns the Step-3 trace, a code level, partner or year
\* of the query that produced the primary rate that differs from the one requested
\* is named in the trace; so the trace is 'WITS: No fallback needed' only if that
\* query was the one for the requested partner, the requested code and target_year.
C17_TraceComplete ==
    (ReachedFinalSelection /\ NumericIdx # {}) =>
        LET q == requests[PrimaryIdx].url
        IN /\ q.hs # hs_code => Recorded(HsPart(q.hs))
           /\ q.p # partner => Recorded(PartnerPart(q.p))
           /\ q.yr # target_year => Recorded(YearPart(q.yr))
           /\ result.reason[1].kind = "no_fallback"
              => q.p = partner /\ q.hs = hs_code /\ q.yr = target_year

C17_Witness ==
    /\ ReachedFinalSelection
    /\ NumericIdx # {}
    /\ requests[PrimaryIdx].url.hs # hs_code
    /\ requests[PrimaryIdx].url.p # partner
    /\ requests[PrimaryIdx].url.yr # target_year
    /\ Recorded(HsPart(requests[PrimaryIdx].url.hs))

\* C18: when the function returns and no rate query has yielded a numeric rate,
\* the returned rate is absent, the reason is one sentence that cites the URL of
\* the last rate query sent, and the secondary source has not been contacted.
C18_NoDataCitesLastUrl ==
    (pc = "done" /\ WitsIdx # {} /\ NumericIdx = {})
    => /\ ~result.rate.some
       /\ Len(result.reason) = 1
       /\ result.reason[1].kind \in {"no_data", "invalid_rate"}
       /\ requests[Len(requests)].src = "wits"
       /\ result.reason[1].url = requests[Len(requests)].url
       /\ SecondaryIdx = {}

C18_Witness ==
    /\ pc = "done"
    /\ Cardinality(WitsIdx) = 6
    /\ NumericIdx = {}
    /\ Len(result.reason) = 1
    /\ result.reason[1].kind = "no_data"
    /\ result.reason[1].url = QueryUrl(World, <<8, 5>>, used_year.v)

\* The (partner, code level) pair of the i-th request of the log.
PairOf(i) == <<requests[i].url.p, requests[i].url.hs>>

\* The function ended by an exception raised while a rate query was handled.
RaisedInScan == pc = "raised" /\ WitsIdx # {} /\ SecondaryIdx = {}

\* C19: a rate query that fails is only that pair's failure: the function does not
\* end by an exception because of it, and a rate query that yielded no rate is
\* followed, if by any, by the query for the next pair of the scan order.
C19_FailedQueryIsSoft ==
    /\ ~RaisedInScan
    /\ \A i \in WitsIdx :
          (i + 1 \in WitsIdx /\ ~requests[i].got.some)
          => \E k \in 1 .. Len(AllPairs) - 1 :
                PairOf(i) = AllPairs[k] /\ PairOf(i + 1) = AllPairs[k + 1]

\* An observation whose value float() rejects.
Offending == {resp \in WitsResponses : resp.kind = "obs" /\ ~ParseFloat(resp.raw).some}

\* C20: an observation whose value is present but not numeric ends the scan by the
\* return of api.py:183 whatever was found before it; and a run that returned
\* that way has no rate, made the offending query its last request, asked no
\* secondary source, and its one sentence names the pair queried, a value that
\* is indeed not numeric, and the URL of that last query.
C20_InvalidObservationFatal ==
    /\ pc = "scan" =>
          \A resp \in Offending :
             ScanBody(resp, partners_to_try[pi], hs_levels[hi], rate, used_hs, used_partner,
                      reason_parts, attempted_bilateral).ctl = "invalid"
    /\ (pc = "done" /\ HasSentence(result.reason, "invalid_rate"))
       => /\ ~result.rate.some
          /\ Len(result.reason) = 1
          /\ SecondaryIdx = {}
          /\ requests # <<>>
          /\ LET last == requests[Len(requests)]
                 note == result.reason[1]
             IN /\ last.src = "wits"
                /\ ~last.got.some
                /\ note.url = last.url
                /\ Len(note.parts) = 2
                /\ note.parts[1] = Part("obs", last.url.hs, last.url.p, 0)
                /\ note.parts[2].kind = "value"
                /\ \E resp \in Offending : note.parts[2] = ValuePart(resp.raw)

\* The offending observation came after a zero rate had been observed and before
\* the last pair of the scan order.
C20_Witness ==
    /\ pc = "done"
    /\ HasSentence(result.reason, "invalid_rate")
    /\ \E i \in NumericIdx : requests[i].got = Some(0)
    /\ requests # <<>>
    /\ PairOf(Len(requests)) # AllPairs[Len(AllPairs)]

\* Positions of the catalog whose name has both "MFN" and "average", and those
\* whose name has "tariff", "duty" or "tax".
MfnAverageAt == {i \in 1 .. Len(catalog) : catalog[i] # NoName /\ HasMfnAverage(catalog[i])}
TariffWordAt == {i \in 1 .. Len(catalog) : catalog[i] # NoName /\ HasTariffWord(catalog[i])}
Least(S) == CHOOSE x \in S : \A y \in S : x <= y

\* The indicator the catalog calls for: the MFN average one if there is one,
\* otherwise the first tariff, duty or tax one, otherwise none (0).
PreferredIndicator == IF MfnAverageAt # {} THEN Least(MfnAverageAt)
                      ELSE IF TariffWordAt # {} THEN Least(TariffWordAt)
                      ELSE 0

\* The catalog was read and an indicator was looked for in it.
IndicatorDecided == \/ pc = "wto_data"
                    \/ pc = "done" /\ HasSentence(result.reason, "no_indicator")

\* C21: once the catalog is read, the indicator selected is the MFN average one
\* if the catalog has one, otherwise the first one named tariff, duty or tax;
\* the data query is prepared exactly when there is such an indicator.
C21_IndicatorSelection ==
    IndicatorDecided
    => /\ tariff_indicator.code = PreferredIndicator
       /\ pc = "wto_data" <=> PreferredIndicator # 0

\* The same with the preference limited to MFN average names that also have one
\* of the words tariff, duty or tax.
C21_AsCoded ==
    IndicatorDecided
    => LET both == MfnAverageAt \cap TariffWordAt
           want == IF both # {} THEN Least(both)
                   ELSE IF TariffWordAt # {} THEN Least(TariffWordAt) ELSE 0
       IN /\ tariff_indicator.code = want
          /\ pc = "wto_data" <=> want # 0

\* Positions of the secondary data query and of its simplified retry in the log.
WtoDataIdx == {i \in 1 .. Len(requests) : requests[i].src = "wto_data"}
WtoRetryIdx == {i \in 1 .. Len(requests) : requests[i].src = "wto_retry"}

\* C22: there is at most one secondary data query and at most one retry of it;
\* the first response leads to the retry exactly when it is a dimension
\* rejection; the retry directly follows the data query, which yielded no rate,
\* names the same indicator and neither partner nor product; and no request
\* follows the retry.
C22_RetryOnceOnDimensionError ==
    /\ Cardinality(WtoDataIdx) <= 1
    /\ Cardinality(WtoRetryIdx) <= 1
    /\ pc = "wto_data" =>
          \A resp \in WtoResponses :
             WtoBody(resp, rate, WtoUrl(tariff_indicator)).ctl = "retry" <=> resp.kind = "dimension"
    /\ pc = "wto_retry" => /\ requests # <<>>
                           /\ requests[Len(requests)].src = "wto_data"
    /\ \A i \in WtoRetryIdx :
          /\ i = Len(requests)
          /\ pc = "done"
          /\ i - 1 \in WtoDataIdx
          /\ ~requests[i - 1].got.some
          /\ requests[i].url.src = "wto_simplified"
          /\ requests[i].url.ind = requests[i - 1].url.ind
          /\ requests[i].url.p = "-"
          /\ requests[i].url.hs = NoHs

\* A retry that yielded a rate, after a data query that named partner and product.
C22_Witness ==
    \E i \in WtoRetryIdx :
        /\ i > 1
        /\ requests[i - 1].url.p # "-"
        /\ requests[i - 1].url.hs # NoHs
        /\ requests[i].got.some

\* C23: when the function has returned, every secondary request that yielded a
\* numeric rate, the retry included, has left a note carrying that rate:
\* "confirmed" if it equals the Step-3 rate, "discrepancy" if it differs.
C23_SecondaryRateCompared ==
    pc = "done"
    => \A i \in WtoDataIdx \cup WtoRetryIdx :
          requests[i].got.some
          => \E k \in 1 .. Len(result.reason) :
                /\ result.reason[k].kind = IF requests[i].got = rate THEN "confirmed"
                                           ELSE "discrepancy"
                /\ result.reason[k].r = requests[i].got

\* The same for the first data query alone.
C23_FirstQueryCompared ==
    pc = "done"
    => \A i \in WtoDataIdx :
          requests[i].got.some
          => \E k \in 1 .. Len(result.reason) :
                /\ result.reason[k].kind = IF requests[i].got = rate THEN "confirmed"
                                           ELSE "discrepancy"
                /\ result.reason[k].r = requests[i].got
                /\ result.reason[k].url = requests[i].url

\* C24: the ladder has no level twice, and no rate query is issued twice in one
\* run (no two rate requests of the log have the same partner, level and year).
C24_NoQueryTwice ==
    /\ \A h, k \in 1 .. Len(hs_levels) : hs_levels[h] = hs_levels[k] => h = k
    /\ \A i, j \in WitsIdx : requests[i].url = requests[j].url => i = j

\* The same for a code of six digits only.
C24_NoQueryTwiceForLongCode ==
    Len(hs_code) = 6
    => /\ \A h, k \in 1 .. Len(hs_levels) : hs_levels[h] = hs_levels[k] => h = k
       /\ \A i, j \in WitsIdx : requests[i].url = requests[j].url => i = j

\* C25: rate queries name only the requested partner or the world aggregate; no
\* query for the requested partner follows one for the world aggregate; among
\* the queries for one partner a later one never has a longer code; and a
\* request for the world aggregate queries the world aggregate only.
C25_PartnerOuterLevelInner ==
    /\ \A i \in WitsIdx : requests[i].url.p \in {partner, World}
    /\ \A i, j \in WitsIdx :
          i < j => /\ requests[i].url.p = World => requests[j].url.p = World
                   /\ requests[i].url.p = requests[j].url.p
                      => Len(requests[i].url.hs) >= Len(requests[j].url.hs)
    /\ partner = World => \A i \in WitsIdx : requests[i].url.p = World

\* Both partners were queried at all three levels of a six-digit code.
C25_Witness ==
    /\ partner # World
    /\ Len(hs_code) = 6
    /\ \A q \in {partner, World} : \A n \in {2, 4, 6} :
          \E i \in WitsIdx : requests[i].url.p = q /\ Len(requests[i].url.hs) = n

\* The resolver calls that returned, by name.
ResolvedBy == {resolutions[k].fn : k \in {j \in 1 .. Len(resolutions) : ~resolutions[j].raised}}
SomeResolutionFailed == \E k \in 1 .. Len(resolutions) : resolutions[k].raised

\* C26: once the cascade is called (and so before its first request) the product
\* and both countries are resolved and the cascade's arguments are the three
\* resolved codes; after a resolution that failed the cascade is never called
\* and no request is made.
C26_CascadeAfterResolutions ==
    /\ (pc # "uncalled" \/ requests # <<>>)
       => /\ ResolvedBy = {"find_hs_code", "find_reporter", "find_partner"}
          /\ ~SomeResolutionFailed
          /\ gt_hs_code # NoHs /\ reporter_code # "-" /\ partner_code # "-"
          /\ hs_code = gt_hs_code
          /\ partner = partner_code
          /\ reporter = reporter_code
    /\ SomeResolutionFailed
       => /\ gt_pc = "failed"
          /\ pc = "uncalled"
          /\ requests = <<>>
          /\ ~response.sent

\* The endpoint answered with a rate found by the cascade's third request or later.
C26_Witness ==
    /\ gt_pc = "responded"
    /\ response.tariff.some
    /\ Len(requests) >= 3
    /\ partner_code # World

\* The resolver calls for which the index returned no item.
NoMatch(fn) == \E k \in 1 .. Len(resolutions) :
                  resolutions[k].fn = fn /\ resolutions[k].index = "empty"

\* C29: a resolver whose index query returned no item does not raise; it
\* returns the code "000000" for a product and "000" for a country.
C29_NoMatchYieldsZeroCode ==
    /\ \A k \in 1 .. Len(resolutions) : resolutions[k].index = "empty" => ~resolutions[k].raised
    /\ NoMatch("find_hs_code") => gt_hs_code = ZeroHs
    /\ NoMatch("find_reporter") => reporter_code = World
    /\ NoMatch("find_partner") => partner_code = World

\* C27: if the wrapped function never returns None (a constructor), it runs at
\* most once however the threads' first calls interleave, and all calls of the
\* wrapper return the same object.
C27_ConstructedOncePerProcess ==
    invocations = Cardinality(instances)
    => /\ invocations <= 1
       /\ \A j, k \in 1 .. Len(wcalls) : wcalls[j].ret = wcalls[k].ret

\* The same for calls none of which overlapped another.
C27_ConstructedOnceSequentially ==
    (/\ invocations = Cardinality(instances)
     /\ \A k \in 1 .. Len(wcalls) : wcalls[k].alone
     /\ \A th \in Threads : thread[th].alone)
    => /\ invocations <= 1
       /\ \A j, k \in 1 .. Len(wcalls) : wcalls[j].ret = wcalls[k].ret

\* Calls returned so far, none of which overlapped another.
Sequential == \A k \in 1 .. Len(wcalls) : wcalls[k].alone
\* The calls before the k-th that returned a value other than None.
ValuedBefore(k) == {j \in 1 .. k - 1 : wcalls[j].ret.some}

\* C28: in a sequence of calls that do not overlap, a call runs the wrapped
\* function exactly if no earlier call returned a value other than None, and
\* otherwise returns the first such value whatever its own argument; the
\* function has run once per call that ran it.
C28_CachedAfterFirstValue ==
    Sequential
    => /\ \A k \in 1 .. Len(wcalls) :
             IF ValuedBefore(k) = {}
             THEN wcalls[k].invoked
             ELSE /\ ~wcalls[k].invoked
                  /\ wcalls[k].ret = wcalls[Least(ValuedBefore(k))].ret
       /\ (\A th \in Threads : ~Busy(th))
          => invocations = Cardinality({k \in 1 .. Len(wcalls) : wcalls[k].invoked})

\* A call returned None, the next a value, and a third call with another
\* argument returned that value.
C28_Witness ==
    /\ Sequential
    /\ Len(wcalls) = 3
    /\ ~wcalls[1].ret.some
    /\ wcalls[2].ret.some
    /\ wcalls[3].arg # wcalls[2].arg
    /\ wcalls[3].ret = wcalls[2].ret
    /\ invocations = 2

\* C30: when drop has returned and no call has started since, the system store
\* has no row under the repository's metadata key, the repository's
\* metadata_columns and vector_store are None, and a row that was under the
\* other key when drop was called is still there with the same value.
C30_DropClearsOwnEntryOnly ==
    \A t \in Tasks :
        (/\ task[t].op = "drop"
         /\ task[t].pc = "done"
         /\ task[t].outcome.status = "ok"
         /\ last_done = DropReturned
         /\ \A u \in Tasks : ~Active(u))
        => /\ ~system_items.some
           /\ metadata_columns = Unset
           /\ vector_store = NoVectorStore
           /\ task[t].at_call.other.some => other_items = task[t].at_call.other

\* drop returned after a complete rebuild, with a row under the other key.
C30_Witness ==
    \E t \in Tasks :
        /\ task[t].op = "drop"
        /\ task[t].pc = "done"
        /\ task[t].outcome.status = "ok"
        /\ task[t].at_call.complete
        /\ task[t].at_call.other = Cols(OtherColumns)
        /\ other_items = Cols(OtherColumns)

\* The sentences of the returned trace that cite a primary query URL beside a
\* primary rate.
FallbackNotes == {k \in 1 .. Len(result.reason) : result.reason[k].kind = "fallback"}

\* C35: when the function has returned a trace citing a primary query URL, the
\* URL is that of the query answered with the primary rate: it names the
\* partner, level and year used, and is the URL of the last request of the log
\* that yielded a rate.
C35_CitedUrlProducedRate ==
    (pc = "done" /\ FallbackNotes # {})
    => \A k \in FallbackNotes :
          /\ result.reason[k].url = QueryUrl(used_partner, used_hs, used_year.v)
          /\ NumericIdx # {}
          /\ result.reason[k].url = requests[Greatest(NumericIdx)].url

\* The URL cited is that of the last primary query attempted.
C35_CitedUrlIsLastQuery ==
    (pc = "done" /\ FallbackNotes # {})
    => \A k \in FallbackNotes :
          /\ WitsIdx # {}
          /\ result.reason[k].url = requests[Greatest(WitsIdx)].url
          /\ result.reason[k].url = last_query_url

\* Requests for the requested partner answered with the rate 0, and requests
\* for the world aggregate answered with a rate.
PartnerZeroIdx == {i \in NumericIdx : requests[i].url.p = partner /\ requests[i].got.v = 0}
WorldNumericIdx == {i \in NumericIdx : requests[i].url.p = World}

\* C36: for a bilateral request whose scan of the requested partner found the
\* rate 0: once a world-aggregate query has yielded a rate, the primary rate,
\* partner and level are those of that response, whatever the level of the
\* earlier zero; and when the scan has ended with no rate from the world
\* aggregate, they are those of the earlier zero.
C36_WorldRateReplacesEarlierZero ==
    (partner # World /\ PartnerZeroIdx # {})
    => /\ \A w \in WorldNumericIdx :
             /\ rate = requests[w].got
             /\ used_partner = World
             /\ used_hs = requests[w].url.hs
       /\ (Step3Completed /\ WorldNumericIdx = {})
          => \A z \in PartnerZeroIdx :
                /\ rate = Some(0)
                /\ used_partner = partner
                /\ used_hs = requests[z].url.hs

\* The zero came at the full code, the world-aggregate rate at two digits.
C36_Witness ==
    /\ pc = "done"
    /\ partner # World
    /\ \E z \in PartnerZeroIdx : Len(requests[z].url.hs) = 6
    /\ \E w \in WorldNumericIdx : Len(requests[w].url.hs) = 2 /\ requests[w].got.v # 0
    /\ used_partner = World

\* C39: a rate returned by the final selection is the primary rate or the
\* secondary rate; it is 0 only if the primary rate is 0 and the secondary rate
\* is absent or 0; and beside a primary rate other than 0, a secondary rate of
\* 0 is not the one returned.
C39_ReturnedRateIsPrimaryOrSecondary ==
    (pc = "done" /\ result.rate.some)
    => /\ result.rate = rate \/ (wto_rate.some /\ result.rate = wto_rate)
       /\ result.rate.v = 0 => /\ rate = Some(0)
                               /\ ~wto_rate.some \/ wto_rate.v = 0
       /\ (rate.some /\ rate.v # 0 /\ wto_rate = Some(0)) => result.rate = rate

\* Both sources gave the rate 0 and 0 was returned.
C39_Witness ==
    /\ pc = "done"
    /\ rate = Some(0)
    /\ wto_rate = Some(0)
    /\ result.rate = Some(0)

\* Positions of the availability request in the log.
AvailIdx == {i \in 1 .. Len(requests) : requests[i].src = "avail"}
\* The function has returned or raised.
Terminated == pc \in {"done", "raised"}

\* The numbers of requests made so far are within their limits, and the requests
\* were made in the order availability, primary, secondary.
RequestsBounded ==
    /\ Cardinality(AvailIdx) <= 1
    /\ Cardinality(WitsIdx) <= 6
    /\ Cardinality(SecondaryIdx) <= 3
    /\ Len(requests) = Cardinality(AvailIdx) + Cardinality(WitsIdx) + Cardinality(SecondaryIdx)
    /\ \A a \in AvailIdx : \A i \in WitsIdx \cup SecondaryIdx : a < i
    /\ \A i \in WitsIdx : \A s \in SecondaryIdx : i < s

\* A step makes at most one request, and none once the function has ended.
OneRequestAtATime ==
    /\ Len(requests') <= Len(requests) + 1
    /\ Terminated => requests' = requests

\* C40: every run ends (by a return or an exception), having made at most one
\* availability request, six primary rate requests and three secondary
\* requests, one request per step.
C40_TerminatesWithinRequestBudget ==
    /\ []RequestsBounded
    /\ [][OneRequestAtATime]_vars
    /\ <>Terminated

\* A run that used the whole budget: ten requests and then the return.
C40_Witness ==
    /\ pc = "done"
    /\ Cardinality(AvailIdx) = 1
    /\ Cardinality(WitsIdx) = 6
    /\ Cardinality(SecondaryIdx) = 3

\* Coroutine t's call of op, the latest call made, has returned without an
\* exception.
JustReturned(t, op) ==
    /\ task[t].op = op
    /\ task[t].n = calls
    /\ task[t].pc = "done"
    /\ task[t].outcome.status = "ok"
    /\ last_done = [op |-> op, status |-> "ok"]
    /\ \A u \in Tasks : ~Active(u)

\* C37: when fetch_data has returned, the schema saved in the system store lists
\* the attribute columns of the rebuilt table (all columns of the frame but the
\* content column), and a store object built from the saved schema can read the
\* table.
C37_SavedSchemaMatchesTable ==
    \A t \in Tasks :
        JustReturned(t, "fetch_data")
        => /\ system_items.some
           /\ table.exists
           /\ table.cols = system_items.cols \ {ContentColumn}
           /\ Usable(table, NewVectorStore(0, system_items))

\* The same for the first call made on a new instance.
C37_FirstCallOnNewInstance ==
    \A t \in Tasks :
        (JustReturned(t, "fetch_data") /\ task[t].n = 1)
        => /\ system_items.some
           /\ table.exists
           /\ table.cols = system_items.cols \ {ContentColumn}
           /\ Usable(table, NewVectorStore(0, system_items))

\* Coroutine t's fetch_data, the latest call made, has raised, and it ran beside
\* no other call.
FetchFailed(t) ==
    /\ task[t].op = "fetch_data"
    /\ task[t].n = calls
    /\ task[t].pc = "done"
    /\ task[t].outcome.status = "error"
    /\ task[t].at_call.company = {}
    /\ last_done = [op |-> "fetch_data", status |-> "error"]
    /\ \A u \in Tasks : ~Active(u)

\* C38: a fetch_data that fails leaves the index table, the schema saved in the
\* system store and the instance's metadata_columns as they were when it was
\* called.
C38_FailedRebuildChangesNothing ==
    \A t \in Tasks :
        FetchFailed(t)
        => /\ table = task[t].at_call.table
           /\ system_items = task[t].at_call.items
           /\ metadata_columns = task[t].at_call.schema

\* The same for a failure of the request itself, and for the saved schema
\* whatever the failure.
C38_FailedRequestChangesNothing ==
    \A t \in Tasks :
        FetchFailed(t)
        => /\ system_items = task[t].at_call.items
           /\ task[t].outcome.kind = "HTTPError"
              => /\ table = task[t].at_call.table
                 /\ metadata_columns = task[t].at_call.schema

\* C31: the system store is a map from keys to documents: get_item(k) returns
\* the document last written for k by add_item or upsert_item, or None if k was
\* never written or was deleted last, and the table has at most one row per key.
C31_StoreIsKeyValueMap ==
    /\ \A k \in StoreKeys :
          /\ Fetched(store_table, k) = written[k].last
          /\ Len(Matching(store_table, k)) <= 1
    /\ (store_call.op = "get_item" /\ store_call.status = "ok")
       => store_call.result = written[store_call.key].last

\* get_item returned a document of two fields that replaced an earlier one.
C31_Witness ==
    /\ store_call.op = "get_item"
    /\ store_call.status = "ok"
    /\ store_call.result.some
    /\ DOMAIN store_call.result.doc = Fields
    /\ written[store_call.key].writes >= 2
    /\ Len(store_table) = 2

\* C32: add_item for a key that has a row raises the uniqueness error and
\* leaves every row of the table as it was.
C32_DuplicateAddRejected ==
    (store_call.op = "add_item" /\ Matching(store_call.before, store_call.key) # <<>>)
    => /\ store_call.status = "UniqueViolation"
       /\ store_table = store_call.before
       /\ \A k \in StoreKeys : Fetched(store_table, k) = Fetched(store_call.before, k)

\* add_item was rejected for a key that holds another document, beside a row of
\* another key.
C32_Witness ==
    /\ store_call.op = "add_item"
    /\ store_call.status = "UniqueViolation"
    /\ Len(store_table) = 2
    /\ Fetched(store_table, store_call.key) # store_call.arg

\* C33: delete_item(k) on a connected store returns without error, leaves no row
\* of key k and every row of the other keys as it was; if k had no row the
\* table is unchanged.
C33_DeleteRemovesOnlyItsKey ==
    (store_call.op = "delete_item" /\ store_call.status # "PoolNotInitialized")
    => /\ store_call.status = "ok"
       /\ Matching(store_table, store_call.key) = <<>>
       /\ \A k \in StoreKeys \ {store_call.key} :
             Matching(store_table, k) = Matching(store_call.before, k)
       /\ Matching(store_call.before, store_call.key) = <<>>
          => store_table = store_call.before

\* delete_item removed one of two rows.
C33_Witness ==
    /\ store_call.op = "delete_item"
    /\ store_call.status = "ok"
    /\ Len(store_call.before) = 2
    /\ Len(store_table) = 1

\* delete_item for a key without a row, on a table that has a row.
C33_AbsentKeyDeleted ==
    /\ store_call.op = "delete_item"
    /\ store_call.status = "ok"
    /\ Matching(store_call.before, store_call.key) = <<>>
    /\ store_call.before # <<>>

====
